---- MODULE Spec2Model ----
(***************************************************************************)
(* Model of caterpillar.py: the conversion pipeline convert_app, which     *)
(* turns a Chrome App (input tree) into a progressive web app (output      *)
(* tree).  Paths, file names and script lines are real strings; a file     *)
(* tree is a function from relative path to file content.                  *)
(***************************************************************************)
EXTENDS Integers, Sequences, FiniteSets, TLC

(***************************************************************************)
(* Bounds of the model.                                                    *)
(***************************************************************************)
\* Largest number of distinct APIs the scanner reports for one app.
MaxApis == 2

\* Largest number of lines of a script file handed to the annotation pass.
MaxLines == 3

\* Largest number of annotation passes run over one file.
MaxPasses == 2

\* Largest number of elements in the head of a document handed to
\* inject_misc_tags on its own.
MaxElements == 2

\* Largest number of icons of a source manifest handed to
\* generate_web_manifest on its own.
MaxIcons == 2

(***************************************************************************)
(* Program constants.                                                      *)
(***************************************************************************)
POLYFILLS == {"notifications", "power", "runtime", "storage", "tts"}

CHROME_APP_MANIFEST_FILENAME == "manifest.json"

WEB_MANIFEST_FILENAME == "manifest.webmanifest"

REGISTER_SCRIPT_NAME == "register_sw.js"

SW_SCRIPT_NAME == "sw.js"

SW_STATIC_SCRIPT_NAME == "sw_static.js"

MAX_CACHE_VERSION == 1000000

INFO_SCRIPT_NAME == "app.info.js"

\* Maps dependency managers to the folder they install dependencies into.
DEPENDENCY_MANAGER_INSTALL_FOLDER ==
  ("bower" :> "bower_components") @@ ("npm" :> "node_modules")

\* config['boilerplate_dir'], config['report_dir'], config['start_url'].
config ==
  [boilerplate_dir |-> "bp", report_dir |-> "rep", start_url |-> "index.html"]

(***************************************************************************)
(* Strings.                                                                *)
(***************************************************************************)
\* The characters that occur in paths, in code point order.
Alphabet == "./_abcdefghijklmnopqrstuvwxyz"

\* Rank of a one-character string among the characters of Alphabet; the
\* order of ranks is the order of code points.
Ord(c) == CHOOSE i \in 1..Len(Alphabet) : SubSeq(Alphabet, i, i) = c

\* s < t as Python compares two strings: by code point, a proper prefix first.
RECURSIVE StrLess(_, _)
StrLess(s, t) ==
  IF Len(t) = 0 THEN FALSE
  ELSE IF Len(s) = 0 THEN TRUE
  ELSE IF Head(s) = Head(t) THEN StrLess(Tail(s), Tail(t))
  ELSE Ord(Head(s)) < Ord(Head(t))

\* s.endswith(suffix)
EndsWith(s, suffix) ==
  /\ Len(s) >= Len(suffix)
  /\ SubSeq(s, Len(s) - Len(suffix) + 1, Len(s)) = suffix

\* s.startswith(prefix)
StartsWith(s, prefix) ==
  /\ Len(s) >= Len(prefix)
  /\ SubSeq(s, 1, Len(prefix)) = prefix

\* sub in s
Contains(s, sub) ==
  \E i \in 1..(Len(s) - Len(sub) + 1) : SubSeq(s, i, i + Len(sub) - 1) = sub

\* os.path.join(a, b) for a relative b.
Join(a, b) == IF a = "" THEN b ELSE a \o "/" \o b

\* Number of directory separators in a relative path.
Depth(p) == Cardinality({i \in 1..Len(p) : SubSeq(p, i, i) = "/"})

\* os.path.relpath(output_dir, dirpath) for the directory holding file p of
\* the output tree: '.' for the root, one '..' per directory level below it.
RECURSIVE UpPath(_)
UpPath(n) == IF n = 1 THEN ".." ELSE Join("..", UpPath(n - 1))

RootPath(p) == IF Depth(p) = 0 THEN "." ELSE UpPath(Depth(p))

\* The elements of a sequence.
Range(s) == {s[i] : i \in DOMAIN s}

\* s reversed.
RECURSIVE Reverse(_)
Reverse(s) == IF s = <<>> THEN <<>> ELSE Reverse(Tail(s)) \o <<Head(s)>>

\* The duplicate-free sequences over S of length at most n.
RECURSIVE Arrangements(_, _)
Arrangements(S, n) ==
  IF n = 0 THEN {<<>>}
  ELSE {<<>>} \cup
       UNION {{<<x>> \o t : t \in Arrangements(S \ {x}, n - 1)} : x \in S}

\* The orders in which a set can be enumerated.
Perms(S) == {s \in Arrangements(S, Cardinality(S)) : Len(s) = Cardinality(S)}

(***************************************************************************)
(* Markup documents.  A document is what the HTML parser builds: an        *)
(* optional html element, an optional head and an optional body, and the   *)
(* elements in them.  In document order the children of the head come      *)
(* first, then the children of the body, then the elements that are in     *)
(* neither (rest).  An element is a record with a tag and its attributes.  *)
(***************************************************************************)
Script(src) == [tag |-> "script", src |-> src]

\* The elements of a document in document order.
Elements(soup) == soup.head \o soup.body \o soup.rest

\* The elements of a sequence that are script elements, in order.
RECURSIVE ScriptsOf(_)
ScriptsOf(es) ==
  IF es = <<>> THEN <<>>
  ELSE (IF Head(es).tag = "script" THEN <<Head(es)>> ELSE <<>>)
       \o ScriptsOf(Tail(es))

\* soup('script')
Scripts(soup) == ScriptsOf(Elements(soup))

\* s with e inserted so that it becomes the element at index i.
InsertAt(s, i, e) == SubSeq(s, 1, i - 1) \o <<e>> \o SubSeq(s, i, Len(s))

\* Index of the first script element of a sequence, 0 when there is none.
FirstScriptIndex(es) ==
  IF \E i \in DOMAIN es : es[i].tag = "script"
  THEN CHOOSE i \in DOMAIN es :
         /\ es[i].tag = "script"
         /\ \A j \in 1..(i - 1) : es[j].tag # "script"
  ELSE 0

\* scripts[0] if scripts else None, as the place of that element: the part of
\* the document that holds it and its index there; part "None" for None.
FirstScript(soup) ==
  IF FirstScriptIndex(soup.head) # 0
  THEN [part |-> "head", idx |-> FirstScriptIndex(soup.head)]
  ELSE IF FirstScriptIndex(soup.body) # 0
  THEN [part |-> "body", idx |-> FirstScriptIndex(soup.body)]
  ELSE IF FirstScriptIndex(soup.rest) # 0
  THEN [part |-> "rest", idx |-> FirstScriptIndex(soup.rest)]
  ELSE [part |-> "None", idx |-> 0]

\* The loop of inject_script_tags over the reversed path list: each script
\* is appended to the body when there is no first script, and otherwise
\* inserted before the first script; it then becomes the first script.
RECURSIVE InjectLoop(_, _, _, _)
InjectLoop(soup, first_script, paths, prefix) ==
  IF paths = <<>> THEN soup
  ELSE LET script == Script(Join(prefix, Head(paths)))
       IN  IF first_script.part = "None"
           THEN InjectLoop([soup EXCEPT !.body = Append(@, script)],
                           [part |-> "body", idx |-> Len(soup.body) + 1],
                           Tail(paths), prefix)
           ELSE InjectLoop(
                  [soup EXCEPT ![first_script.part] =
                                 InsertAt(@, first_script.idx, script)],
                  first_script, Tail(paths), prefix)

\* inject_script_tags.  soup.body is None in a document without a body, and
\* soup.body.append then raises AttributeError: raised is TRUE and the
\* document is as it was.
inject_script_tags(soup, required_js_paths, root_path, boilerplate_dir) ==
  IF required_js_paths = <<>> THEN [raised |-> FALSE, soup |-> soup]
  ELSE IF FirstScript(soup).part = "None" /\ ~soup.hasBody
  THEN [raised |-> TRUE, soup |-> soup]
  ELSE [raised |-> FALSE,
        soup |-> InjectLoop(soup, FirstScript(soup),
                            Reverse(required_js_paths),
                            Join(root_path, boilerplate_dir))]

\* soup('meta', {'name': tag}) is not empty.
HasMetaName(soup, tag) ==
  \E i \in DOMAIN Elements(soup) :
    LET e == Elements(soup)[i]
    IN  e.tag = "meta" /\ "name" \in DOMAIN e /\ e.name = tag

\* soup('meta', {'charset': True}) is not empty.
HasMetaCharset(soup) ==
  \E i \in DOMAIN Elements(soup) :
    LET e == Elements(soup)[i]
    IN  e.tag = "meta" /\ "charset" \in DOMAIN e

\* The meta tag step of inject_misc_tags for one of the descriptive fields.
AddMeta(soup, chrome_app_manifest, tag) ==
  IF tag \in DOMAIN chrome_app_manifest /\ ~HasMetaName(soup, tag)
  THEN [soup EXCEPT !.head =
          Append(@, [tag |-> "meta", content |-> chrome_app_manifest[tag],
                     name |-> tag])]
  ELSE soup

\* inject_misc_tags, had it appended the charset meta tag to the head.
inject_misc_tags_charset_last(soup, chrome_app_manifest, root_path) ==
  LET withHead == [soup EXCEPT !.hasHead = TRUE]
      withLink == [withHead EXCEPT !.head =
                     Append(@, [tag |-> "link", rel |-> "manifest",
                                href |-> Join(root_path,
                                              WEB_MANIFEST_FILENAME)])]
      withMeta == AddMeta(AddMeta(AddMeta(withLink, chrome_app_manifest,
                                          "description"),
                                  chrome_app_manifest, "author"),
                          chrome_app_manifest, "name")
  IN  IF ~HasMetaCharset(withMeta)
      THEN [withMeta EXCEPT !.head =
              Append(@, [tag |-> "meta", charset |-> "utf-8"])]
      ELSE withMeta

inject_misc_tags(soup, chrome_app_manifest, root_path) ==
  LET withHead == [soup EXCEPT !.hasHead = TRUE]
      withLink == [withHead EXCEPT !.head =
                     Append(@, [tag |-> "link", rel |-> "manifest",
                                href |-> Join(root_path,
                                              WEB_MANIFEST_FILENAME)])]
      withMeta == AddMeta(AddMeta(AddMeta(withLink, chrome_app_manifest,
                                          "description"),
                                  chrome_app_manifest, "author"),
                          chrome_app_manifest, "name")
  IN  IF ~HasMetaCharset(withMeta)
      THEN [withMeta EXCEPT !.head =
              <<[tag |-> "meta", charset |-> "utf-8"]>> \o @]
      ELSE withMeta

(***************************************************************************)
(* Script annotation.                                                      *)
(***************************************************************************)
\* Members of the Chrome Apps API surface that the lexical scan knows.
ApiMembers == {"tts.speak", "serial.connect", "storage.local.get"}

None == "None"

\* chrome_app.apis.api_member_used: the API member a line calls, or None.
api_member_used(line) ==
  IF \E m \in ApiMembers : Contains(line, "chrome." \o m \o "(")
  THEN CHOOSE m \in ApiMembers : Contains(line, "chrome." \o m \o "(")
  ELSE None

\* The loop of insert_todos_into_file, had it always ended the comment with a
\* linefeed alone.
RECURSIVE insert_todos_linefeed_only(_)
insert_todos_linefeed_only(lines) ==
  IF lines = <<>> THEN <<>>
  ELSE LET line == Head(lines)
           api_call == api_member_used(line)
           todo == "// TODO(Caterpillar): Check usage of " \o api_call
                   \o "." \o "\n"
       IN  (IF api_call # None THEN <<todo>> ELSE <<>>) \o <<line>>
           \o insert_todos_linefeed_only(Tail(lines))

\* The lines insert_todos_into_file writes for the lines it reads.
RECURSIVE insert_todos(_)
insert_todos(lines) ==
  IF lines = <<>> THEN <<>>
  ELSE LET line == Head(lines)
           api_call == api_member_used(line)
           newline == IF EndsWith(line, "\r\n") THEN "\r\n" ELSE "\n"
           todo == "// TODO(Caterpillar): Check usage of " \o api_call
                   \o "." \o newline
       IN  (IF api_call # None THEN <<todo>> ELSE <<>>) \o <<line>>
           \o insert_todos(Tail(lines))

\* insert_todos_into_file on a file content.
insert_todos_into_file(content) ==
  [content EXCEPT !.lines = insert_todos(@)]

(***************************************************************************)
(* Artifacts.                                                              *)
(***************************************************************************)
\* The icon entries of the web manifest, one per size of the icon map.
WebIcons(manifest) ==
  IF "icons" \in DOMAIN manifest
  THEN {[src |-> manifest.icons[icon_size],
         sizes |-> icon_size \o "x" \o icon_size] :
        icon_size \in DOMAIN manifest.icons}
  ELSE {}

\* generate_web_manifest, had it not looked at default_locale.
generate_web_manifest_lang_en(manifest, start_url) ==
  [name |-> manifest.name,
   short_name |-> IF "short_name" \in DOMAIN manifest
                  THEN manifest.short_name ELSE manifest.name,
   lang |-> "en",
   splash_screens |-> <<>>,
   display |-> "minimal-ui",
   orientation |-> "any",
   start_url |-> start_url,
   theme_color |-> "white",
   background_color |-> "white",
   related_applications |-> <<>>,
   prefer_related_applications |-> FALSE,
   icons |-> WebIcons(manifest)]

generate_web_manifest(manifest, start_url) ==
  [name |-> manifest.name,
   short_name |-> IF "short_name" \in DOMAIN manifest
                  THEN manifest.short_name ELSE manifest.name,
   lang |-> IF "default_locale" \in DOMAIN manifest
            THEN manifest.default_locale ELSE "en",
   splash_screens |-> <<>>,
   display |-> "minimal-ui",
   orientation |-> "any",
   start_url |-> start_url,
   theme_color |-> "white",
   background_color |-> "white",
   related_applications |-> <<>>,
   prefer_related_applications |-> FALSE,
   icons |-> WebIcons(manifest)]

polyfill_filename(api) == api \o ".polyfill.js"

\* One polyfill path per API of the list, in list order.
RECURSIVE polyfill_paths(_)
polyfill_paths(apis) ==
  IF apis = <<>> THEN <<>>
  ELSE <<Join("polyfills", polyfill_filename(Head(apis)))>>
       \o polyfill_paths(Tail(apis))

\* The file a script of Caterpillar's js directory is copied from.  The
\* scripts stand in for the Chrome Apps API, and a line of them may look like
\* a call of it.
StaticSource(static_code_path) ==
  [kind |-> "js",
   lines |-> <<"// " \o static_code_path \o "\n", "chrome.tts.speak(u);\n">>]

\* The orders os.walk may report the files of a tree in.  Every caller either
\* sorts the list or treats each file on its own, so one order stands for all.
RECURSIVE SetToSeq(_)
SetToSeq(S) ==
  IF S = {} THEN <<>>
  ELSE LET x == CHOOSE y \in S : TRUE IN <<x>> \o SetToSeq(S \ {x})

\* The relative paths of all files of a tree, as os.walk and relpath give them.
Walk(tree) == SetToSeq(DOMAIN tree)

\* A sorted list with one more path put at its place.
RECURSIVE InsertSorted(_, _)
InsertSorted(sorted, p) ==
  IF sorted = <<>> THEN <<p>>
  ELSE IF StrLess(p, Head(sorted)) THEN <<p>> \o sorted
  ELSE <<Head(sorted)>> \o InsertSorted(Tail(sorted), p)

\* all_filepaths.sort(), had it sorted in descending order.
RECURSIVE SortPaths_descending(_)
SortPaths_descending(paths) ==
  IF paths = <<>> THEN <<>>
  ELSE Reverse(InsertSorted(Reverse(SortPaths_descending(Tail(paths))),
                            Head(paths)))

\* all_filepaths.sort()
RECURSIVE SortPaths(_)
SortPaths(paths) ==
  IF paths = <<>> THEN <<>>
  ELSE InsertSorted(SortPaths(Tail(paths)), Head(paths))

\* os.path.join(boilerplate_dir, path) for each path of a list.
RECURSIVE Prefixed(_, _)
Prefixed(boilerplate_dir, paths) ==
  IF paths = <<>> THEN <<>>
  ELSE <<Join(boilerplate_dir, Head(paths))>>
       \o Prefixed(boilerplate_dir, Tail(paths))

\* chrome_app_manifest['app']['background'].get('scripts', [])
BackgroundScripts(chrome_app_manifest) ==
  IF "scripts" \in DOMAIN chrome_app_manifest.app.background
  THEN chrome_app_manifest.app.background.scripts
  ELSE <<>>

\* generate_service_worker, had the loop gone over
\* background_scripts + required_js_paths.
generate_service_worker_background_first(tree, manifest, required_js_paths, dir, version) ==
  [cache_version |-> version,
   cached_files |-> SortPaths(Walk(tree)),
   imports |-> <<Join(dir, "caterpillar.js"), Join(dir, "sw_static.js")>>
               \o BackgroundScripts(manifest)
               \o Prefixed(dir, required_js_paths)]

\* generate_service_worker: the caching script as the values the template is
\* filled with and the importScripts statements in the order they are
\* written, the two of the template first.
generate_service_worker(tree, manifest, required_js_paths, dir, version) ==
  [cache_version |-> version,
   cached_files |-> SortPaths(Walk(tree)),
   imports |-> <<Join(dir, "caterpillar.js"), Join(dir, "sw_static.js")>>
               \o Prefixed(dir, required_js_paths)
               \o BackgroundScripts(manifest)]

(***************************************************************************)
(* Polyfill registry (polyfill_manifest) and source manifests               *)
(* (chrome_app.manifest).                                                  *)
(***************************************************************************)
DepBower == [name |-> "dep", path |-> "d.js", manager |-> "bower"]

DepNpm == [name |-> "lib", path |-> "l.js", manager |-> "npm"]

DepOther == [name |-> "pkg", path |-> "p.js", manager |-> "yarn"]

Descriptor(status, dependencies) ==
  [status |-> status, dependencies |-> dependencies]

\* The registries the model runs with: the polyfill manifest of every API
\* that has a polyfill.
Registries ==
  { \* two polyfills that share a dependency
    [api \in POLYFILLS |->
       IF api \in {"tts", "storage"} THEN Descriptor("total", <<DepBower>>)
       ELSE Descriptor("total", <<>>)],
    \* a partial polyfill, and dependencies of both managers
    [api \in POLYFILLS |->
       IF api = "tts" THEN Descriptor("total", <<DepBower>>)
       ELSE IF api = "storage" THEN Descriptor("partial", <<DepNpm>>)
       ELSE Descriptor("total", <<>>)],
    \* a dependency of a manager that is neither bower nor npm
    [api \in POLYFILLS |->
       IF api = "tts" THEN Descriptor("partial", <<DepOther>>)
       ELSE Descriptor("total", <<>>)] }

\* polyfill_manifest.load_many: the manifests of the given APIs, by API.
load_many(reg, apiList) == [api \in Range(apiList) |-> reg[api]]

\* polyfill_manifest.default: the manifest that stands in for an API without
\* a polyfill.
default(api) == Descriptor("none", <<>>)

\* The API names the scanner can report.
ApiNames == {"tts", "storage", "serial", "app.window", "app.runtime"}

ManifestFull ==
  [name |-> "app", short_name |-> "a", description |-> "demo",
   author |-> "me", default_locale |-> "fr", icons |-> ("16" :> "i.png"),
   app |-> [background |-> [scripts |-> <<"x.js", "a/y.js">>]]]

ManifestMinimal ==
  [name |-> "app", app |-> [background |-> [scripts |-> <<"a/y.js">>]]]

ManifestNoBackground == [name |-> "app", description |-> "demo"]

Manifests == {ManifestFull, ManifestMinimal, ManifestNoBackground}

\* chrome_app.manifest.verify raises ValueError unless the required fields
\* name and app.background.scripts are present.
verify_raises(manifest) ==
  ~ /\ "name" \in DOMAIN manifest
    /\ "app" \in DOMAIN manifest
    /\ "background" \in DOMAIN manifest.app
    /\ "scripts" \in DOMAIN manifest.app.background

(***************************************************************************)
(* Input trees.                                                            *)
(***************************************************************************)
Doc(hasHtml, hasHead, hasBody, head, body, rest) ==
  [hasHtml |-> hasHtml, hasHead |-> hasHead, hasBody |-> hasBody,
   head |-> head, body |-> body, rest |-> rest]

Para == [tag |-> "p"]

\* The markup documents the model runs with.
Docs ==
  { \* one script in the body, after a paragraph
    Doc(TRUE, TRUE, TRUE, <<[tag |-> "meta", charset |-> "latin1"]>>,
        <<Para, Script("main.js")>>, <<>>),
    \* a script in the head and one in the body, and an author meta tag
    Doc(TRUE, TRUE, TRUE,
        <<[tag |-> "meta", name |-> "author", content |-> "x"],
          Script("lib.js")>>,
        <<Script("main.js"), Para>>, <<>>),
    \* a body without a script, no head
    Doc(TRUE, FALSE, TRUE, <<>>, <<Para>>, <<>>),
    \* a fragment: no html, head or body element, and no script
    Doc(FALSE, FALSE, FALSE, <<>>, <<>>, <<Para>>),
    \* a fragment with one script
    Doc(FALSE, FALSE, FALSE, <<>>, <<>>, <<Para, Script("main.js")>>) }

\* The Chrome App with the given manifest and main page.
InputTree(manifest, doc) ==
  (CHROME_APP_MANIFEST_FILENAME :> [kind |-> "json", data |-> manifest])
  @@ ("index.html" :> [kind |-> "html", doc |-> doc])
  @@ ("a/p.html" :> [kind |-> "html",
                     doc |-> Doc(TRUE, TRUE, TRUE, <<>>,
                                 <<Script("p.js")>>, <<>>)])
  @@ ("x.js" :> [kind |-> "js",
                 lines |-> <<"chrome.tts.speak(a);\r\n", "var b;\n">>])
  @@ ("a/y.js" :> [kind |-> "js",
                   lines |-> <<"var c;\n", "chrome.serial.connect(d);">>])

\* What an output directory left by an earlier run holds.
OldTree == ("old.txt" :> [kind |-> "text"])

\* A directory that does not exist has no files.
NoTree == <<>>

(***************************************************************************)
(* State.                                                                  *)
(***************************************************************************)
VARIABLES
  pc,                        \* the stage convert_app is at, or how it ended
  force,                     \* args.force
  registry,                  \* the polyfill manifests that are installed
  input_exists, input_tree,  \* the input directory
  config_start_url,          \* config['start_url']
  output_exists, fs,         \* the output directory and the files in it
  apis, polyfillable, not_polyfillable, polyfill_manifests, dependencies,
  required_always_paths, required_generated_paths,
  required_dependency_paths, required_polyfill_paths,
  required_script_paths,     \* the list handed to edit_code
  required_sw_paths,         \* the list handed to add_service_worker
  chrome_app_manifest,
  installs,                  \* one record per call of install_dependency
  tree_after_install,        \* the files there when install_dependencies ended
  sw_js,                     \* what generate_service_worker returned
  status,
  report,                    \* the arguments of report.generate_and_write
  log,                       \* the records the root logger was given
  captured_warnings,         \* handler.captured_warnings
  exit_code,                 \* the exit status of the process, -1 while it runs
  trace                      \* the steps taken so far, in order

vars ==
  <<pc, force, registry, input_exists, input_tree, config_start_url,
    output_exists, fs, apis,
    polyfillable, not_polyfillable, polyfill_manifests, dependencies,
    required_always_paths, required_generated_paths,
    required_dependency_paths, required_polyfill_paths, required_script_paths,
    required_sw_paths, chrome_app_manifest, installs, tree_after_install,
    sw_js, status, report, log, captured_warnings, exit_code, trace>>

envVars == <<force, registry, input_exists, input_tree, config_start_url>>

resolveVars ==
  <<apis, polyfillable, not_polyfillable, polyfill_manifests, dependencies,
    required_dependency_paths, required_polyfill_paths>>

swVars == <<required_sw_paths, installs, tree_after_install, sw_js>>

endVars == <<status, report, exit_code>>

NoManifest == <<>>

NoServiceWorker ==
  [cache_version |-> -1, cached_files |-> <<>>, imports |-> <<>>]

NoReport == <<>>

\* One logging call: the record is added to the log, and
\* WarningStoreStreamHandler.emit stores its message if it is a warning.
Logged(records, level, msg) ==
  Append(records, [levelname |-> level, msg |-> msg])

\* emit, had it stored errors as well as warnings.
emit_errors_too(warnings, level, msg) ==
  IF level \in {"WARNING", "ERROR"} THEN Append(warnings, msg) ELSE warnings

emit(warnings, level, msg) ==
  IF level = "WARNING" THEN Append(warnings, msg) ELSE warnings

\* The captured warnings after the handler was given the records, in order.
RECURSIVE EmitAll(_, _)
EmitAll(warnings, records) ==
  IF records = <<>> THEN warnings
  ELSE EmitAll(emit(warnings, Head(records).levelname, Head(records).msg),
               Tail(records))

\* The root logger hands every record of a step to the handler.
Handle ==
  captured_warnings' =
    EmitAll(captured_warnings, SubSeq(log', Len(log) + 1, Len(log')))

\* ', '.join(strings)
RECURSIVE JoinStrings(_)
JoinStrings(strings) ==
  IF strings = <<>> THEN ""
  ELSE IF Len(strings) = 1 THEN Head(strings)
  ELSE Head(strings) \o ", " \o JoinStrings(Tail(strings))

\* tree with the file at path written (created or overwritten).
WriteFile(tree, path, content) == (path :> content) @@ tree

\* tree without the file at path.
RemoveFile(tree, path) == [q \in DOMAIN tree \ {path} |-> tree[q]]

Init ==
  /\ pc = "setup"
  /\ force \in BOOLEAN
  /\ registry \in Registries
  /\ input_exists \in BOOLEAN
  /\ \E manifest \in Manifests, doc \in Docs :
       input_tree = IF input_exists THEN InputTree(manifest, doc) ELSE NoTree
  /\ config_start_url = config.start_url
  /\ output_exists \in BOOLEAN
  /\ fs = IF output_exists THEN OldTree ELSE NoTree
  /\ apis = <<>>
  /\ polyfillable = <<>>
  /\ not_polyfillable = <<>>
  /\ polyfill_manifests = <<>>
  /\ dependencies = <<>>
  /\ required_always_paths = <<>>
  /\ required_generated_paths = <<>>
  /\ required_dependency_paths = <<>>
  /\ required_polyfill_paths = <<>>
  /\ required_script_paths = <<>>
  /\ required_sw_paths = <<>>
  /\ chrome_app_manifest = NoManifest
  /\ installs = <<>>
  /\ tree_after_install = {}
  /\ sw_js = NoServiceWorker
  /\ status = "unset"
  /\ report = NoReport
  /\ log = <<>>
  /\ captured_warnings = <<>>
  /\ exit_code = -1
  /\ trace = <<>>

(***************************************************************************)
(* The order of the statements of convert_app and add_service_worker.      *)
(***************************************************************************)
\* The order, had the dependencies been installed after the caching script
\* was generated and written.
After_install_last(stage) ==
  CASE stage = "setup" -> "scan"
    [] stage = "scan" -> "manifest"
    [] stage = "manifest" -> "web_manifest"
    [] stage = "web_manifest" -> "app_info"
    [] stage = "app_info" -> "cleanup"
    [] stage = "cleanup" -> "edit_code"
    [] stage = "edit_code" -> "copy_static"
    [] stage = "copy_static" -> "add_service_worker"
    [] stage = "add_service_worker" -> "generate_service_worker"
    [] stage = "generate_service_worker" -> "write_service_worker"
    [] stage = "write_service_worker" -> "install"
    [] stage = "install" -> "classify"
    [] stage = "classify" -> "report"
    [] stage = "report" -> "done"

\* The order, had the static code been copied before the code was edited.
After_copy_static_first(stage) ==
  CASE stage = "setup" -> "scan"
    [] stage = "scan" -> "manifest"
    [] stage = "manifest" -> "web_manifest"
    [] stage = "web_manifest" -> "app_info"
    [] stage = "app_info" -> "cleanup"
    [] stage = "cleanup" -> "copy_static"
    [] stage = "copy_static" -> "edit_code"
    [] stage = "edit_code" -> "install"
    [] stage = "install" -> "add_service_worker"
    [] stage = "add_service_worker" -> "generate_service_worker"
    [] stage = "generate_service_worker" -> "write_service_worker"
    [] stage = "write_service_worker" -> "classify"
    [] stage = "classify" -> "report"
    [] stage = "report" -> "done"

\* The order, had the web manifest and the app info script been written
\* after the dependencies were installed.
After_artifacts_after_install(stage) ==
  CASE stage = "setup" -> "scan"
    [] stage = "scan" -> "manifest"
    [] stage = "manifest" -> "cleanup"
    [] stage = "cleanup" -> "edit_code"
    [] stage = "edit_code" -> "copy_static"
    [] stage = "copy_static" -> "install"
    [] stage = "install" -> "web_manifest"
    [] stage = "web_manifest" -> "app_info"
    [] stage = "app_info" -> "add_service_worker"
    [] stage = "add_service_worker" -> "generate_service_worker"
    [] stage = "generate_service_worker" -> "write_service_worker"
    [] stage = "write_service_worker" -> "classify"
    [] stage = "classify" -> "report"
    [] stage = "report" -> "done"

\* The order, had the dependencies been installed before the code was
\* edited.
After_install_before_edit(stage) ==
  CASE stage = "setup" -> "scan"
    [] stage = "scan" -> "manifest"
    [] stage = "manifest" -> "web_manifest"
    [] stage = "web_manifest" -> "app_info"
    [] stage = "app_info" -> "cleanup"
    [] stage = "cleanup" -> "install"
    [] stage = "install" -> "edit_code"
    [] stage = "edit_code" -> "copy_static"
    [] stage = "copy_static" -> "add_service_worker"
    [] stage = "add_service_worker" -> "generate_service_worker"
    [] stage = "generate_service_worker" -> "write_service_worker"
    [] stage = "write_service_worker" -> "classify"
    [] stage = "classify" -> "report"
    [] stage = "report" -> "done"

\* The stage that follows a stage that ended without an exception.
After(stage) ==
  CASE stage = "setup" -> "scan"
    [] stage = "scan" -> "manifest"
    [] stage = "manifest" -> "web_manifest"
    [] stage = "web_manifest" -> "app_info"
    [] stage = "app_info" -> "cleanup"
    [] stage = "cleanup" -> "edit_code"
    [] stage = "edit_code" -> "copy_static"
    [] stage = "copy_static" -> "install"
    [] stage = "install" -> "add_service_worker"
    [] stage = "add_service_worker" -> "generate_service_worker"
    [] stage = "generate_service_worker" -> "write_service_worker"
    [] stage = "write_service_worker" -> "classify"
    [] stage = "classify" -> "report"
    [] stage = "report" -> "done"

(***************************************************************************)
(* setup_output_dir and its call in convert_app.                           *)
(***************************************************************************)
\* setup_output_dir, had it copied the input tree over an existing output
\* directory before it looked whether there was one.
SetupOutputDir_copy_first ==
  /\ pc = "setup"
  /\ IF ~input_exists
     THEN /\ output_exists' = (output_exists /\ ~force)
          /\ fs' = IF force THEN NoTree ELSE fs
          /\ log' = Logged(log, "ERROR", "")
          /\ pc' = "aborted"
     ELSE IF ~force /\ output_exists
     THEN /\ output_exists' = TRUE
          /\ fs' = input_tree @@ fs
          /\ log' = Logged(log, "ERROR", "Output directory already exists.")
          /\ pc' = "aborted"
     ELSE /\ output_exists' = TRUE
          /\ fs' = input_tree
          /\ log' = log
          /\ pc' = "scan"
  /\ trace' = Append(trace, "setup_output_dir")
  /\ Handle
  /\ UNCHANGED <<envVars, resolveVars, swVars, endVars, required_always_paths,
                 required_generated_paths, required_script_paths,
                 chrome_app_manifest>>

\* setup_output_dir, had it removed an existing output directory only once
\* the input tree had been found.
SetupOutputDir_remove_after_input_found ==
  /\ pc = "setup"
  /\ IF ~force /\ output_exists
     THEN /\ log' = Logged(log, "ERROR", "Output directory already exists.")
          /\ pc' = "aborted"
          /\ UNCHANGED <<output_exists, fs>>
     ELSE IF ~input_exists
     THEN /\ log' = Logged(log, "ERROR", "")
          /\ pc' = "aborted"
          /\ UNCHANGED <<output_exists, fs>>
     ELSE /\ output_exists' = TRUE
          /\ fs' = input_tree
          /\ log' = log
          /\ pc' = After("setup")
  /\ trace' = Append(trace, "setup_output_dir")
  /\ Handle
  /\ UNCHANGED <<envVars, resolveVars, swVars, endVars, required_always_paths,
                 required_generated_paths, required_script_paths,
                 chrome_app_manifest>>

SetupOutputDir ==
  /\ pc = "setup"
  /\ IF ~force /\ output_exists
     THEN \* raise OSError('Output directory already exists.')
          /\ log' = Logged(log, "ERROR", "Output directory already exists.")
          /\ pc' = "aborted"
          /\ trace' = Append(trace, "setup_output_dir")
          /\ UNCHANGED <<output_exists, fs>>
     ELSE IF ~input_exists
     THEN \* rmtree under force, then copytree raises OSError (errno, ...),
          \* whose message attribute is the empty string
          /\ output_exists' = FALSE
          /\ fs' = NoTree
          /\ log' = Logged(log, "ERROR", "")
          /\ pc' = "aborted"
          /\ trace' = Append(trace, "setup_output_dir")
     ELSE /\ output_exists' = TRUE
          /\ fs' = input_tree
          /\ log' = log
          /\ pc' = After("setup")
          /\ trace' = Append(trace, "setup_output_dir")
  /\ Handle
  /\ UNCHANGED <<envVars, resolveVars, swVars, endVars, required_always_paths,
                 required_generated_paths, required_script_paths,
                 chrome_app_manifest>>

(***************************************************************************)
(* Scan and resolve: from the call of app_apis to the required path lists. *)
(***************************************************************************)
\* The partition loop without its else: every API is put in not_polyfillable.
RECURSIVE Partition_no_else(_, _)
Partition_no_else(apiList, want) ==
  IF apiList = <<>> THEN <<>>
  ELSE (IF want => Head(apiList) \in POLYFILLS THEN <<Head(apiList)>>
        ELSE <<>>)
       \o Partition_no_else(Tail(apiList), want)

\* The APIs of a list that have (want = TRUE) or do not have a polyfill.
RECURSIVE Partition(_, _)
Partition(apiList, want) ==
  IF apiList = <<>> THEN <<>>
  ELSE (IF (Head(apiList) \in POLYFILLS) = want THEN <<Head(apiList)>>
        ELSE <<>>)
       \o Partition(Tail(apiList), want)

\* The dependencies of the manifests, the manifests taken in the given order.
RECURSIVE DependenciesOf(_, _)
DependenciesOf(manifests, order) ==
  IF order = <<>> THEN <<>>
  ELSE manifests[Head(order)].dependencies
       \o DependenciesOf(manifests, Tail(order))

\* Some dependency names a manager that has no install folder: the lookup in
\* DEPENDENCY_MANAGER_INSTALL_FOLDER raises KeyError.
FolderLookupRaises(deps) ==
  \E i \in DOMAIN deps :
    deps[i].manager \notin DOMAIN DEPENDENCY_MANAGER_INSTALL_FOLDER

\* The path of each dependency relative to the boilerplate directory.
RECURSIVE DependencyPaths(_)
DependencyPaths(deps) ==
  IF deps = <<>> THEN <<>>
  ELSE LET dependency == Head(deps)
       IN  <<Join("..",
                  Join(DEPENDENCY_MANAGER_INSTALL_FOLDER[dependency.manager],
                       Join(dependency.name, dependency.path)))>>
           \o DependencyPaths(Tail(deps))

ScanAndResolve ==
  /\ pc = "scan"
  /\ \E found \in Arrangements(ApiNames, MaxApis) :
       LET able == Partition(found, TRUE)
           unable == Partition(found, FALSE)
           manifests == load_many(registry, able)
           log1 == IF found # <<>>
                   THEN Logged(log, "INFO",
                               "Found Chrome APIs: " \o JoinStrings(found))
                   ELSE log
           log2 == Logged(log1, "INFO",
                          "Polyfilled Chrome APIs: " \o JoinStrings(able))
           warning == "Could not polyfill Chrome APIs: "
                      \o JoinStrings(unable)
       IN  /\ apis' = found
           /\ polyfillable' = able
           /\ not_polyfillable' = unable
           /\ polyfill_manifests' = manifests
           /\ log' = Logged(log2, "WARNING", warning)
           /\ \E order \in Perms(Range(able)) :
                LET deps == DependenciesOf(manifests, order)
                IN  /\ dependencies' = deps
                    /\ IF FolderLookupRaises(deps)
                       THEN /\ pc' = "crashed"
                            /\ UNCHANGED <<required_always_paths,
                                           required_dependency_paths,
                                           required_polyfill_paths>>
                       ELSE /\ pc' = After("scan")
                            /\ required_always_paths' =
                                 <<"caterpillar.js", REGISTER_SCRIPT_NAME>>
                            /\ required_dependency_paths' =
                                 DependencyPaths(deps)
                            /\ required_polyfill_paths' = polyfill_paths(able)
  /\ trace' = Append(trace, "scan_and_resolve")
  /\ Handle
  /\ UNCHANGED <<envVars, output_exists, fs, swVars, endVars,
                 required_generated_paths, required_script_paths,
                 chrome_app_manifest>>

(***************************************************************************)
(* Read in and check the manifest file.                                    *)
(***************************************************************************)
\* The manifest stage, had the except clause logged the error without
\* returning.
ReadManifest_no_return ==
  /\ pc = "manifest"
  /\ LET manifest == input_tree[CHROME_APP_MANIFEST_FILENAME].data
     IN  /\ chrome_app_manifest' = manifest
         /\ log' = IF verify_raises(manifest)
                   THEN Logged(log, "ERROR", "Manifest is invalid.")
                   ELSE log
         /\ pc' = After("manifest")
  /\ trace' = Append(trace, "verify_manifest")
  /\ Handle
  /\ UNCHANGED <<envVars, output_exists, fs, resolveVars, swVars, endVars,
                 required_always_paths, required_generated_paths,
                 required_script_paths>>

ReadManifest ==
  /\ pc = "manifest"
  /\ LET manifest == input_tree[CHROME_APP_MANIFEST_FILENAME].data
     IN  /\ chrome_app_manifest' = manifest
         /\ IF verify_raises(manifest)
            THEN /\ log' = Logged(log, "ERROR", "Manifest is invalid.")
                 /\ pc' = "aborted"
            ELSE /\ log' = log
                 /\ pc' = After("manifest")
  /\ trace' = Append(trace, "verify_manifest")
  /\ Handle
  /\ UNCHANGED <<envVars, output_exists, fs, resolveVars, swVars, endVars,
                 required_always_paths, required_generated_paths,
                 required_script_paths>>

(***************************************************************************)
(* Web manifest, app info script, cleanup.                                 *)
(***************************************************************************)
WriteWebManifest ==
  /\ pc = "web_manifest"
  /\ fs' = WriteFile(fs, WEB_MANIFEST_FILENAME,
                     [kind |-> "json",
                      data |-> generate_web_manifest(chrome_app_manifest,
                                                     config_start_url)])
  /\ log' = Logged(log, "INFO",
                   "Got start URL from config file: " \o config_start_url)
  /\ pc' = After("web_manifest")
  /\ trace' = Append(trace, "write_web_manifest")
  /\ Handle
  /\ UNCHANGED <<envVars, output_exists, resolveVars, swVars, endVars,
                 required_always_paths, required_generated_paths,
                 required_script_paths, chrome_app_manifest>>

\* add_app_info and the registration of the script it writes.
AddAppInfo ==
  /\ pc = "app_info"
  /\ fs' = WriteFile(fs, INFO_SCRIPT_NAME,
                     [kind |-> "js",
                      lines |-> <<"caterpillar_.manifest = {\n", "};\n">>,
                      data |-> chrome_app_manifest])
  /\ required_generated_paths' =
       Append(required_generated_paths, Join("..", INFO_SCRIPT_NAME))
  /\ pc' = After("app_info")
  /\ trace' = Append(trace, "add_app_info")
  /\ UNCHANGED <<envVars, output_exists, resolveVars, swVars, endVars,
                 required_always_paths, required_script_paths,
                 chrome_app_manifest, log, captured_warnings>>

\* cleanup_output_dir, had it left the source manifest file in the output
\* tree.
CleanupOutputDir_keeps_manifest ==
  /\ pc = "cleanup"
  /\ fs' = fs
  /\ pc' = After("cleanup")
  /\ trace' = Append(trace, "cleanup_output_dir")
  /\ UNCHANGED <<envVars, output_exists, resolveVars, swVars, endVars,
                 required_always_paths, required_generated_paths,
                 required_script_paths, chrome_app_manifest, log,
                 captured_warnings>>

\* cleanup_output_dir: os.remove raises OSError when the file is not there.
CleanupOutputDir ==
  /\ pc = "cleanup"
  /\ IF CHROME_APP_MANIFEST_FILENAME \in DOMAIN fs
     THEN /\ fs' = RemoveFile(fs, CHROME_APP_MANIFEST_FILENAME)
          /\ pc' = After("cleanup")
     ELSE /\ fs' = fs
          /\ pc' = "crashed"
  /\ trace' = Append(trace, "cleanup_output_dir")
  /\ UNCHANGED <<envVars, output_exists, resolveVars, swVars, endVars,
                 required_always_paths, required_generated_paths,
                 required_script_paths, chrome_app_manifest, log,
                 captured_warnings>>

(***************************************************************************)
(* edit_code.                                                              *)
(***************************************************************************)
\* Order is significant here - always, then dependencies, then polyfills;
\* with the order of the categories changed.
RequiredScriptPaths_polyfills_first(always, generated, dependency, polyfill) ==
  polyfill \o always \o generated \o dependency

\* required_script_paths, had sw_static.js been appended to the always
\* required paths before edit_code was called.
RequiredScriptPaths_with_sw_static(always, generated, dependency, polyfill) ==
  Append(always, SW_STATIC_SCRIPT_NAME) \o generated \o dependency
  \o polyfill

\* required_script_paths, the list edit_code is called with.
RequiredScriptPaths(always, generated, dependency, polyfill) ==
  always \o generated \o dependency \o polyfill

\* The body of the walk of edit_code for an .html file: raised tells whether
\* inject_script_tags raised, content is what is written back.
EditHtml(path, content, required_js_paths, manifest) ==
  LET injected == inject_script_tags(content.doc, required_js_paths,
                                     RootPath(path), config.boilerplate_dir)
  IN  IF injected.raised THEN [raised |-> TRUE, content |-> content]
      ELSE [raised |-> FALSE,
            content |-> [content EXCEPT !.doc =
                           inject_misc_tags(injected.soup, manifest,
                                            RootPath(path))]]

\* The body of the walk of edit_code for one file.
EditFile(path, content, required_js_paths, manifest) ==
  IF EndsWith(path, ".js")
  THEN [raised |-> FALSE, content |-> insert_todos_into_file(content)]
  ELSE IF EndsWith(path, ".html")
  THEN EditHtml(path, content, required_js_paths, manifest)
  ELSE [raised |-> FALSE, content |-> content]

EditCode ==
  /\ pc = "edit_code"
  /\ LET required == RequiredScriptPaths(required_always_paths,
                                         required_generated_paths,
                                         required_dependency_paths,
                                         required_polyfill_paths)
         edited == [p \in DOMAIN fs |->
                      EditFile(p, fs[p], required, chrome_app_manifest)]
         raising == {p \in DOMAIN fs : edited[p].raised}
     IN  /\ required_script_paths' = required
         /\ IF raising = {}
            THEN /\ fs' = [p \in DOMAIN fs |-> edited[p].content]
                 /\ pc' = After("edit_code")
            ELSE \* the walk stops at the first file that raises; the files
                 \* it came to before that one are edited
                 /\ \E before \in SUBSET (DOMAIN fs \ raising) :
                      fs' = [p \in DOMAIN fs |->
                               IF p \in before THEN edited[p].content
                               ELSE fs[p]]
                 /\ pc' = "crashed"
  /\ trace' = Append(trace, "edit_code")
  /\ UNCHANGED <<envVars, output_exists, resolveVars, swVars, endVars,
                 required_always_paths, required_generated_paths,
                 chrome_app_manifest, log, captured_warnings>>

(***************************************************************************)
(* copy_static_code.                                                       *)
(***************************************************************************)
\* tree after the scripts of the list are copied into directory.
RECURSIVE CopyScripts(_, _, _)
CopyScripts(tree, scripts, directory) ==
  IF scripts = <<>> THEN tree
  ELSE CopyScripts(WriteFile(tree, Join(directory, Head(scripts)),
                             StaticSource(Head(scripts))),
                   Tail(scripts), directory)

copy_static_code(tree, static_code_paths, boilerplate_dir) ==
  CopyScripts(tree, static_code_paths, boilerplate_dir)

CopyStaticCode ==
  /\ pc = "copy_static"
  /\ LET always == Append(required_always_paths, SW_STATIC_SCRIPT_NAME)
         required_static_paths == always \o required_polyfill_paths
     IN  /\ required_always_paths' = always
         /\ fs' = copy_static_code(fs, required_static_paths,
                                   config.boilerplate_dir)
  /\ pc' = After("copy_static")
  /\ trace' = Append(trace, "copy_static_code")
  /\ UNCHANGED <<envVars, output_exists, resolveVars, swVars, endVars,
                 required_generated_paths, required_script_paths,
                 chrome_app_manifest, log, captured_warnings>>

(***************************************************************************)
(* install_dependencies.                                                   *)
(***************************************************************************)
\* What one run of a package manager can do: what it prints on standard
\* output, its exit status, and whether it put the dependency in its folder.
Outcomes ==
  { [stdout |-> "", returncode |-> 0, wrote |-> TRUE],
    [stdout |-> "", returncode |-> 1, wrote |-> FALSE],
    [stdout |-> "installed", returncode |-> 0, wrote |-> TRUE] }

\* install_dependency raises InstallationError: if not stdout.
InstallationFails(outcome) == outcome.stdout = ""

\* What a package manager installs for a dependency: code that is not
\* Caterpillar's, and may have lines that look like a call of the API.
InstalledSource(dependency) ==
  [kind |-> "js",
   lines |-> <<"// " \o dependency.name \o "\n",
               "chrome.storage.local.get(k);\n">>]

\* The file a package manager installs for a dependency.
InstalledPath(dependency) ==
  Join(DEPENDENCY_MANAGER_INSTALL_FOLDER[dependency.manager],
       Join(dependency.name, dependency.path))

\* The except clause of install_dependencies, had it been missing: the
\* first InstallationError ends the loop.
RECURSIVE install_dependencies_uncaught(_, _, _)
install_dependencies_uncaught(tree, deps, outcomes) ==
  IF deps = <<>> THEN [tree |-> tree, calls |-> <<>>, raised |-> "None"]
  ELSE LET dependency == Head(deps)
           outcome == Head(outcomes)
       IN  IF dependency.manager \in {"bower", "npm"}
           THEN LET tree1 == IF outcome.wrote
                             THEN WriteFile(tree, InstalledPath(dependency),
                                            InstalledSource(dependency))
                             ELSE tree
                    call == [name |-> dependency.name,
                             manager |-> dependency.manager,
                             stdout |-> outcome.stdout,
                             returncode |-> outcome.returncode,
                             failed |-> InstallationFails(outcome)]
                IN  IF InstallationFails(outcome)
                    THEN [tree |-> tree1, calls |-> <<call>>,
                          raised |-> "InstallationError"]
                    ELSE LET later == install_dependencies_uncaught(
                                        tree1, Tail(deps), Tail(outcomes))
                         IN  [later EXCEPT !.calls = <<call>> \o @]
           ELSE [tree |-> tree, calls |-> <<>>, raised |-> "ValueError"]

\* install_dependencies: the tree it leaves, one record per call of
\* install_dependency in the order of the calls, and the exception it ends
\* with ("None" when it returns).  outcomes[i] is what the package manager
\* does for deps[i].
RECURSIVE install_dependencies(_, _, _)
install_dependencies(tree, deps, outcomes) ==
  IF deps = <<>> THEN [tree |-> tree, calls |-> <<>>, raised |-> "None"]
  ELSE LET dependency == Head(deps)
           outcome == Head(outcomes)
       IN  IF dependency.manager \in {"bower", "npm"}
           THEN LET tree1 == IF outcome.wrote
                             THEN WriteFile(tree, InstalledPath(dependency),
                                            InstalledSource(dependency))
                             ELSE tree
                    call == [name |-> dependency.name,
                             manager |-> dependency.manager,
                             stdout |-> outcome.stdout,
                             returncode |-> outcome.returncode,
                             failed |-> InstallationFails(outcome)]
                    later == install_dependencies(tree1, Tail(deps),
                                                  Tail(outcomes))
                IN  [later EXCEPT !.calls = <<call>> \o @]
           ELSE [tree |-> tree, calls |-> <<>>, raised |-> "ValueError"]

\* The log after the warnings of the failed calls.
RECURSIVE WarningsLogged(_, _)
WarningsLogged(records, calls) ==
  IF calls = <<>> THEN records
  ELSE WarningsLogged(
         IF Head(calls).failed
         THEN Logged(records, "WARNING",
                     "Failed to install dependency " \o Head(calls).name
                     \o " with " \o Head(calls).manager)
         ELSE records,
         Tail(calls))

InstallDependencies ==
  /\ pc = "install"
  /\ \E outcomes \in [DOMAIN dependencies -> Outcomes] :
       LET result == install_dependencies(fs, dependencies, outcomes)
       IN  /\ fs' = result.tree
           /\ installs' = result.calls
           /\ tree_after_install' = DOMAIN result.tree
           /\ IF result.raised = "None"
              THEN /\ log' = WarningsLogged(log, result.calls)
                   /\ pc' = After("install")
              ELSE IF result.raised = "ValueError"
              THEN /\ log' = Logged(WarningsLogged(log, result.calls), "ERROR",
                                    "Invalid dependency: No such manager.")
                   /\ pc' = "aborted"
              ELSE /\ log' = WarningsLogged(log, result.calls)
                   /\ pc' = "crashed"
  /\ trace' = Append(trace, "install_dependencies")
  /\ Handle
  /\ UNCHANGED <<envVars, output_exists, resolveVars, endVars,
                 required_always_paths, required_generated_paths,
                 required_script_paths, required_sw_paths,
                 chrome_app_manifest, sw_js>>

(***************************************************************************)
(* add_service_worker.                                                     *)
(***************************************************************************)
\* required_sw_paths, with the two categories in the other order.
RequiredSwPaths_polyfills_first(dependency, polyfill) ==
  polyfill \o dependency

\* required_sw_paths, the list add_service_worker is called with.
RequiredSwPaths(dependency, polyfill) == dependency \o polyfill

\* The call of add_service_worker and its two calls of copy_script.
CopyServiceWorkerScripts ==
  /\ pc = "add_service_worker"
  /\ required_sw_paths' = RequiredSwPaths(required_dependency_paths,
                                          required_polyfill_paths)
  /\ fs' = CopyScripts(fs, <<REGISTER_SCRIPT_NAME, SW_STATIC_SCRIPT_NAME>>,
                       config.boilerplate_dir)
  /\ pc' = After("add_service_worker")
  /\ trace' = Append(trace, "copy_script")
  /\ UNCHANGED <<envVars, output_exists, resolveVars, endVars,
                 required_always_paths, required_generated_paths,
                 required_script_paths, chrome_app_manifest, installs,
                 tree_after_install, sw_js, log, captured_warnings>>

\* The call of generate_service_worker: the walk of the output tree and the
\* text of the caching script.
GenerateServiceWorker ==
  /\ pc = "generate_service_worker"
  /\ \E cache_version \in {0, MAX_CACHE_VERSION - 1} :
       sw_js' = generate_service_worker(fs, chrome_app_manifest,
                                        required_sw_paths,
                                        config.boilerplate_dir, cache_version)
  /\ pc' = After("generate_service_worker")
  /\ trace' = Append(trace, "generate_service_worker")
  /\ UNCHANGED <<envVars, output_exists, fs, resolveVars, endVars,
                 required_always_paths, required_generated_paths,
                 required_script_paths, required_sw_paths,
                 chrome_app_manifest, installs, tree_after_install, log,
                 captured_warnings>>

\* The caching script is written to the root of the output tree.
WriteServiceWorker ==
  /\ pc = "write_service_worker"
  /\ fs' = WriteFile(fs, SW_SCRIPT_NAME,
                     [kind |-> "js", lines |-> <<>>, sw |-> sw_js])
  /\ pc' = After("write_service_worker")
  /\ trace' = Append(trace, "write_service_worker")
  /\ UNCHANGED <<envVars, output_exists, resolveVars, swVars, endVars,
                 required_always_paths, required_generated_paths,
                 required_script_paths, chrome_app_manifest, log,
                 captured_warnings>>

(***************************************************************************)
(* Status, report, exit.                                                   *)
(***************************************************************************)
\* polyfill_manifests after the default manifests of the APIs without a
\* polyfill are added.
WithDefaults(manifests, unable) ==
  [api \in DOMAIN manifests \cup Range(unable) |->
     IF api \in Range(unable) THEN default(api) ELSE manifests[api]]

\* The status loop, had it exempted no API.
ConversionStatus_no_exemption(manifests) ==
  IF \E api \in DOMAIN manifests : manifests[api].status # "total"
  THEN "partial"
  ELSE "total"

\* The status loop of convert_app.
ConversionStatus(manifests) ==
  IF \E api \in DOMAIN manifests :
       /\ manifests[api].status # "total"
       /\ api \notin {"app.window", "app.runtime"}
  THEN "partial"
  ELSE "total"

ClassifyStatus ==
  /\ pc = "classify"
  /\ log' = Logged(Logged(log, "INFO", "Conversion complete."),
                   "INFO", "Generating conversion report.")
  /\ polyfill_manifests' = WithDefaults(polyfill_manifests, not_polyfillable)
  /\ status' = ConversionStatus(polyfill_manifests')
  /\ pc' = After("classify")
  /\ trace' = Append(trace, "classify_status")
  /\ Handle
  /\ UNCHANGED <<envVars, output_exists, fs, apis, polyfillable,
                 not_polyfillable, dependencies, required_dependency_paths,
                 required_polyfill_paths, swVars, report, exit_code,
                 required_always_paths, required_generated_paths,
                 required_script_paths, chrome_app_manifest>>

\* The call of report.generate_and_write, and the end of convert_app.
GenerateReport ==
  /\ pc = "report"
  /\ report' = [report_dir |-> config.report_dir,
                chrome_app_manifest |-> chrome_app_manifest,
                polyfill_manifests |-> polyfill_manifests,
                status |-> status,
                captured_warnings |-> captured_warnings]
  /\ log' = Logged(log, "INFO", "Done.")
  /\ pc' = After("report")
  /\ trace' = Append(trace, "generate_report")
  /\ Handle
  /\ UNCHANGED <<envVars, output_exists, fs, resolveVars, swVars, status,
                 exit_code, required_always_paths, required_generated_paths,
                 required_script_paths, chrome_app_manifest>>

\* main: sys.exit(main()).  main returns None whenever convert_app returns,
\* and the exit status is then 0; an exception that nothing catches ends the
\* process with status 1.
ExitStatus(ended) == IF ended = "crashed" THEN 1 ELSE 0

Exit ==
  /\ pc \in {"done", "aborted", "crashed"}
  /\ exit_code = -1
  /\ exit_code' = ExitStatus(pc)
  /\ trace' = Append(trace, "exit")
  /\ UNCHANGED <<pc, envVars, output_exists, fs, resolveVars, swVars, status,
                 report, required_always_paths, required_generated_paths,
                 required_script_paths, chrome_app_manifest, log,
                 captured_warnings>>

Next ==
  \/ SetupOutputDir
  \/ ScanAndResolve
  \/ ReadManifest
  \/ WriteWebManifest
  \/ AddAppInfo
  \/ CleanupOutputDir
  \/ EditCode
  \/ CopyStaticCode
  \/ InstallDependencies
  \/ CopyServiceWorkerScripts
  \/ GenerateServiceWorker
  \/ WriteServiceWorker
  \/ ClassifyStatus
  \/ GenerateReport
  \/ Exit

Spec == Init /\ [][Next]_vars

(***************************************************************************)
(* The annotation pass on its own: insert_todos_into_file run over one     *)
(* script file, once or again on its own output.  input_tree holds the     *)
(* file as it was before the first pass and fs the file as it is now.      *)
(***************************************************************************)
\* Lines that end with a line terminator.  A file is read in text mode, so a
\* line ends at the first linefeed.
TerminatedLines ==
  { "chrome.tts.speak(a);\r\n",
    "x = chrome.serial.connect(d);\n",
    "var b;\n",
    "var c;\r\n",
    "// TODO(Caterpillar): Check usage of tts.speak.\n" }

\* Lines without a terminator: only the last line of a file can be one.
UnterminatedLines == { "chrome.storage.local.get(k)", "done()" }

\* The sequences over S of length at most n.
RECURSIVE SeqsUpTo(_, _)
SeqsUpTo(S, n) ==
  IF n = 0 THEN {<<>>}
  ELSE {<<>>} \cup {<<x>> \o t : x \in S, t \in SeqsUpTo(S, n - 1)}

\* The script files the pass is run on, as the lines iteration over the open
\* file yields.
ScriptFiles ==
  SeqsUpTo(TerminatedLines, MaxLines)
  \cup {ls \o <<l>> : ls \in SeqsUpTo(TerminatedLines, MaxLines - 1),
                      l \in UnterminatedLines}

AnnotatedPath == "f.js"

InitAnnotate ==
  /\ pc = "annotate"
  /\ force = FALSE
  /\ registry = CHOOSE r \in Registries : TRUE
  /\ input_exists = TRUE
  /\ \E ls \in ScriptFiles :
       input_tree = (AnnotatedPath :> [kind |-> "js", lines |-> ls])
  /\ config_start_url = config.start_url
  /\ output_exists = TRUE
  /\ fs = input_tree
  /\ apis = <<>>
  /\ polyfillable = <<>>
  /\ not_polyfillable = <<>>
  /\ polyfill_manifests = <<>>
  /\ dependencies = <<>>
  /\ required_always_paths = <<>>
  /\ required_generated_paths = <<>>
  /\ required_dependency_paths = <<>>
  /\ required_polyfill_paths = <<>>
  /\ required_script_paths = <<>>
  /\ required_sw_paths = <<>>
  /\ chrome_app_manifest = NoManifest
  /\ installs = <<>>
  /\ tree_after_install = {}
  /\ sw_js = NoServiceWorker
  /\ status = "unset"
  /\ report = NoReport
  /\ log = <<>>
  /\ captured_warnings = <<>>
  /\ exit_code = -1
  /\ trace = <<>>

\* One call of insert_todos_into_file on the file.
InsertTodosIntoFile ==
  /\ pc = "annotate"
  /\ Len(trace) < MaxPasses
  /\ fs' = [fs EXCEPT ![AnnotatedPath] = insert_todos_into_file(@)]
  /\ trace' = Append(trace, "insert_todos_into_file")
  /\ UNCHANGED <<pc, envVars, output_exists, resolveVars, swVars, endVars,
                 required_always_paths, required_generated_paths,
                 required_script_paths, chrome_app_manifest, log,
                 captured_warnings>>

NextAnnotate == InsertTodosIntoFile

SpecAnnotate == InitAnnotate /\ [][NextAnnotate]_vars

(***************************************************************************)
(* inject_misc_tags on its own, run once over one markup document.         *)
(* input_tree holds the document as it was parsed and fs the document as   *)
(* it is now; chrome_app_manifest is the manifest handed to the function.  *)
(***************************************************************************)
\* Elements a head may hold.
HeadElements ==
  { [tag |-> "meta", charset |-> "latin1"],
    [tag |-> "meta", name |-> "description", content |-> "old"],
    [tag |-> "meta", name |-> "name", content |-> "old"],
    [tag |-> "script", src |-> "lib.js"] }

\* What the body of a document may hold; a meta tag may be in the body.
Bodies ==
  { <<>>, <<[tag |-> "p"]>>,
    <<[tag |-> "meta", name |-> "author", content |-> "old"]>> }

\* The documents the function is run on: with or without an html element,
\* a head and a body.
MarkupDocuments ==
  {Doc(hasHtml, TRUE, TRUE, head, body, <<>>) :
     hasHtml \in BOOLEAN, head \in SeqsUpTo(HeadElements, MaxElements),
     body \in Bodies}
  \cup {Doc(hasHtml, FALSE, TRUE, <<>>, body, <<>>) :
          hasHtml \in BOOLEAN, body \in Bodies}
  \cup {Doc(hasHtml, TRUE, FALSE, head, <<>>, <<>>) :
          hasHtml \in BOOLEAN, head \in SeqsUpTo(HeadElements, MaxElements)}
  \cup {Doc(FALSE, FALSE, FALSE, <<>>, <<>>, rest) : rest \in Bodies}

\* The manifests handed to the function: each of the descriptive fields is
\* there or not.
DescriptiveManifests ==
  {[field \in fields |-> "new"] :
     fields \in SUBSET {"description", "author", "name"}}

MarkupPath == "f.html"

InitMisc ==
  /\ pc = "inject"
  /\ force = FALSE
  /\ registry = CHOOSE r \in Registries : TRUE
  /\ input_exists = TRUE
  /\ \E doc \in MarkupDocuments :
       input_tree = (MarkupPath :> [kind |-> "html", doc |-> doc])
  /\ config_start_url = config.start_url
  /\ output_exists = TRUE
  /\ fs = input_tree
  /\ apis = <<>>
  /\ polyfillable = <<>>
  /\ not_polyfillable = <<>>
  /\ polyfill_manifests = <<>>
  /\ dependencies = <<>>
  /\ required_always_paths = <<>>
  /\ required_generated_paths = <<>>
  /\ required_dependency_paths = <<>>
  /\ required_polyfill_paths = <<>>
  /\ required_script_paths = <<>>
  /\ required_sw_paths = <<>>
  /\ chrome_app_manifest \in DescriptiveManifests
  /\ installs = <<>>
  /\ tree_after_install = {}
  /\ sw_js = NoServiceWorker
  /\ status = "unset"
  /\ report = NoReport
  /\ log = <<>>
  /\ captured_warnings = <<>>
  /\ exit_code = -1
  /\ trace = <<>>

\* The call of inject_misc_tags on the document.
InjectMiscTags ==
  /\ pc = "inject"
  /\ trace = <<>>
  /\ fs' = [fs EXCEPT ![MarkupPath].doc =
              inject_misc_tags(@, chrome_app_manifest, RootPath(MarkupPath))]
  /\ trace' = Append(trace, "inject_misc_tags")
  /\ UNCHANGED <<pc, envVars, output_exists, resolveVars, swVars, endVars,
                 required_always_paths, required_generated_paths,
                 required_script_paths, chrome_app_manifest, log,
                 captured_warnings>>

NextMisc == InjectMiscTags

SpecMisc == InitMisc /\ [][NextMisc]_vars

(***************************************************************************)
(* generate_web_manifest on its own, called once.  chrome_app_manifest is  *)
(* the manifest handed to it, input_tree holds the manifest as it was read *)
(* and fs the web manifest that was written.                               *)
(***************************************************************************)
IconSizes == {"16", "48", "128"}

\* The icon maps of a source manifest: size to path.
IconMaps ==
  {[size \in sizes |-> "icon" \o size \o ".png"] :
     sizes \in {S \in SUBSET IconSizes : Cardinality(S) <= MaxIcons}}

\* One optional member of a manifest.
Member(present, key, value) == IF present THEN (key :> value) ELSE <<>>

\* The source manifests the function is called with: name is always there,
\* short_name, default_locale, description and icons are there or not.
SourceManifests ==
  {("name" :> name) @@ Member(short, "short_name", "a")
     @@ Member(locale, "default_locale", "fr")
     @@ Member(described, "description", "demo") @@ icons :
     name \in {"app", "b"}, short \in BOOLEAN, locale \in BOOLEAN,
     described \in BOOLEAN,
     icons \in {<<>>} \cup {("icons" :> map) : map \in IconMaps}}

StartUrls == {"index.html", "main.html"}

InitWebManifest ==
  /\ pc = "generate"
  /\ force = FALSE
  /\ registry = CHOOSE r \in Registries : TRUE
  /\ input_exists = TRUE
  /\ chrome_app_manifest \in SourceManifests
  /\ input_tree = (CHROME_APP_MANIFEST_FILENAME :>
                     [kind |-> "json", data |-> chrome_app_manifest])
  /\ config_start_url \in StartUrls
  /\ output_exists = TRUE
  /\ fs = NoTree
  /\ apis = <<>>
  /\ polyfillable = <<>>
  /\ not_polyfillable = <<>>
  /\ polyfill_manifests = <<>>
  /\ dependencies = <<>>
  /\ required_always_paths = <<>>
  /\ required_generated_paths = <<>>
  /\ required_dependency_paths = <<>>
  /\ required_polyfill_paths = <<>>
  /\ required_script_paths = <<>>
  /\ required_sw_paths = <<>>
  /\ installs = <<>>
  /\ tree_after_install = {}
  /\ sw_js = NoServiceWorker
  /\ status = "unset"
  /\ report = NoReport
  /\ log = <<>>
  /\ captured_warnings = <<>>
  /\ exit_code = -1
  /\ trace = <<>>

\* The call of generate_web_manifest; the function assigns to no member of
\* its argument.
GenerateWebManifest ==
  /\ pc = "generate"
  /\ trace = <<>>
  /\ fs' = WriteFile(fs, WEB_MANIFEST_FILENAME,
                     [kind |-> "json",
                      data |-> generate_web_manifest(chrome_app_manifest,
                                                     config_start_url)])
  /\ trace' = Append(trace, "generate_web_manifest")
  /\ UNCHANGED <<pc, envVars, output_exists, resolveVars, swVars, endVars,
                 required_always_paths, required_generated_paths,
                 required_script_paths, chrome_app_manifest, log,
                 captured_warnings>>

NextWebManifest == GenerateWebManifest

SpecWebManifest == InitWebManifest /\ [][NextWebManifest]_vars

(***************************************************************************)
(* cleanup_output_dir on its own, called once on an output directory.      *)
(* input_tree holds the files of the directory before the call and fs the  *)
(* files in it now.                                                        *)
(***************************************************************************)
\* The files an output directory handed to cleanup_output_dir may hold.
OutputPaths ==
  {CHROME_APP_MANIFEST_FILENAME, WEB_MANIFEST_FILENAME, INFO_SCRIPT_NAME,
   "index.html", "x.js", "a/y.js", "old.txt"}

OutputTrees ==
  {[path \in paths |-> [kind |-> "text"]] : paths \in SUBSET OutputPaths}

InitCleanup ==
  /\ pc = "cleanup"
  /\ force = FALSE
  /\ registry = CHOOSE r \in Registries : TRUE
  /\ input_exists = TRUE
  /\ input_tree \in OutputTrees
  /\ config_start_url = config.start_url
  /\ output_exists = TRUE
  /\ fs = input_tree
  /\ apis = <<>>
  /\ polyfillable = <<>>
  /\ not_polyfillable = <<>>
  /\ polyfill_manifests = <<>>
  /\ dependencies = <<>>
  /\ required_always_paths = <<>>
  /\ required_generated_paths = <<>>
  /\ required_dependency_paths = <<>>
  /\ required_polyfill_paths = <<>>
  /\ required_script_paths = <<>>
  /\ required_sw_paths = <<>>
  /\ chrome_app_manifest = NoManifest
  /\ installs = <<>>
  /\ tree_after_install = {}
  /\ sw_js = NoServiceWorker
  /\ status = "unset"
  /\ report = NoReport
  /\ log = <<>>
  /\ captured_warnings = <<>>
  /\ exit_code = -1
  /\ trace = <<>>

NextCleanup == CleanupOutputDir

SpecCleanup == InitCleanup /\ [][NextCleanup]_vars

(***************************************************************************)
(* The whole conversion, run with an output directory already in place.    *)
(***************************************************************************)
InitExistingOutput == Init /\ output_exists

SpecExistingOutput == InitExistingOutput /\ [][Next]_vars

(***************************************************************************)
(* Properties.                                                             *)
(***************************************************************************)
\* The steps named step have been taken.
Taken(step) == step \in Range(trace)

\* The place of the first step named step in the trace, 0 if not taken.
Pos(step) ==
  IF Taken(step) THEN CHOOSE i \in DOMAIN trace :
                        trace[i] = step /\ \A j \in 1..(i - 1) : trace[j] # step
  ELSE 0

MutationSteps == {"edit_code", "copy_static_code", "install_dependencies"}

\* C1: once the walk of generate_service_worker has collected the cached
\* file list, edit_code, copy_static_code and install_dependencies have each
\* run before it, and none of them runs after it.
C1_WalkAfterMutationPasses ==
  Taken("generate_service_worker") =>
    /\ \A step \in MutationSteps :
         0 < Pos(step) /\ Pos(step) < Pos("generate_service_worker")
    /\ \A i \in DOMAIN trace :
         i > Pos("generate_service_worker") => trace[i] \notin MutationSteps

\* A run in which the walk has been made after two dependencies were
\* installed.
C1_Witness ==
  /\ pc = "write_service_worker"
  /\ Len(installs) >= 2
  /\ trace[Len(trace)] = "generate_service_worker"

\* s is in ascending order without repetition.
StrictlySorted(s) ==
  \A i \in 1..(Len(s) - 1) : StrLess(s[i], s[i + 1])

\* C2: the cached file list of the caching script holds exactly the relative
\* paths of the files that were in the output tree when code editing and
\* dependency installation had ended, each once, in ascending order.
C2_CachedFilesAreSortedFinalTree ==
  sw_js # NoServiceWorker =>
    /\ StrictlySorted(sw_js.cached_files)
    /\ Range(sw_js.cached_files) = tree_after_install
    /\ Taken("edit_code") /\ Taken("install_dependencies")

\* The caching script of a run whose dependency installation added a file
\* to a tree that held x.js and a/y.js.
C2_Witness ==
  /\ sw_js # NoServiceWorker
  /\ {"x.js", "a/y.js"} \subseteq DOMAIN input_tree
  /\ InstalledPath(DepBower) \notin DOMAIN input_tree
  /\ {"x.js", "a/y.js", InstalledPath(DepBower)}
       \subseteq Range(sw_js.cached_files)

\* The category of a required script path: 1 always required, 2 generated,
\* 3 dependency, 4 polyfill.
Category(path) ==
  IF path \in {"caterpillar.js", REGISTER_SCRIPT_NAME, SW_STATIC_SCRIPT_NAME}
  THEN 1
  ELSE IF path = Join("..", INFO_SCRIPT_NAME) THEN 2
  ELSE IF StartsWith(path, "polyfills/") THEN 4
  ELSE 3

\* C3: the list handed to markup injection holds the always required
\* scripts, then the generated scripts, then the dependency scripts, then the
\* polyfill scripts: no path of a later category precedes one of an earlier
\* category, and each category is there in full, in its own order.
C3_RequiredPathOrder ==
  Taken("edit_code") =>
    /\ \A i, j \in DOMAIN required_script_paths :
         i < j => Category(required_script_paths[i])
                    <= Category(required_script_paths[j])
    /\ Len(required_script_paths) =
         2 + Len(required_generated_paths) + Len(required_dependency_paths)
           + Len(required_polyfill_paths)
    /\ SubSeq(required_script_paths, 1, 2)
         = <<"caterpillar.js", REGISTER_SCRIPT_NAME>>
    /\ SubSeq(required_script_paths, 3, 2 + Len(required_generated_paths))
         = required_generated_paths
    /\ SubSeq(required_script_paths, 3 + Len(required_generated_paths),
              Len(required_script_paths) - Len(required_polyfill_paths))
         = required_dependency_paths
    /\ SubSeq(required_script_paths,
              Len(required_script_paths) - Len(required_polyfill_paths) + 1,
              Len(required_script_paths))
         = required_polyfill_paths

\* An injection list with paths of all four categories.
C3_Witness ==
  /\ Taken("edit_code")
  /\ {Category(required_script_paths[i]) : i \in DOMAIN required_script_paths}
       = {1, 2, 3, 4}

\* The markup files of the output tree.
MarkupFiles == {p \in DOMAIN fs : EndsWith(p, ".html")}

\* The src attributes of a sequence of script elements that start with
\* prefix, in order, with the prefix taken off.
RECURSIVE SrcsUnder(_, _)
SrcsUnder(scripts, prefix) ==
  IF scripts = <<>> THEN <<>>
  ELSE (IF StartsWith(Head(scripts).src, prefix)
        THEN <<SubSeq(Head(scripts).src, Len(prefix) + 1,
                      Len(Head(scripts).src))>>
        ELSE <<>>)
       \o SrcsUnder(Tail(scripts), prefix)

\* The scripts of the boilerplate directory that the markup file at path
\* loads, as paths from the root of the output tree, in document order.
InjectedPaths(path) ==
  SrcsUnder(Scripts(fs[path].doc), RootPath(path) \o "/")

\* The scripts of the boilerplate directory that the caching script imports,
\* as paths from the root of the output tree, in the order of the imports.
ImportedPaths ==
  SubSeq(sw_js.imports, 1,
         Len(sw_js.imports) - Len(BackgroundScripts(chrome_app_manifest)))

\* s without the elements that are in S.
RECURSIVE Without(_, _)
Without(s, S) ==
  IF s = <<>> THEN <<>>
  ELSE (IF Head(s) \in S THEN <<>> ELSE <<Head(s)>>) \o Without(Tail(s), S)

\* The caching script has been written and the run went on.
ServiceWorkerWritten == Taken("write_service_worker")

\* C4 as claimed: a markup file loads exactly the required scripts that the
\* caching script imports, in the same order.
C4_SameScriptsInMarkupAndCachingScript ==
  ServiceWorkerWritten =>
    \A p \in MarkupFiles : InjectedPaths(p) = ImportedPaths

PageOnly ==
  {Join(config.boilerplate_dir, REGISTER_SCRIPT_NAME),
   Join(config.boilerplate_dir, Join("..", INFO_SCRIPT_NAME))}

WorkerOnly == {Join(config.boilerplate_dir, SW_STATIC_SCRIPT_NAME)}

\* C4 as amended: caterpillar.js, the dependency scripts and the polyfill
\* scripts are loaded by every markup file and imported by the caching
\* script, in the same order in both; register_sw.js and the metadata script
\* are loaded by the markup files only, sw_static.js is imported by the
\* caching script only.
C4_SharedScriptsInSameOrder ==
  ServiceWorkerWritten =>
    \A p \in MarkupFiles :
      /\ Without(InjectedPaths(p), PageOnly)
           = Without(ImportedPaths, WorkerOnly)
      /\ PageOnly \subseteq Range(InjectedPaths(p))
      /\ PageOnly \cap Range(ImportedPaths) = {}
      /\ WorkerOnly \subseteq Range(ImportedPaths)
      /\ WorkerOnly \cap Range(InjectedPaths(p)) = {}

\* A completed conversion of an app with markup files, two different
\* dependency scripts and two polyfill scripts.
C4_Witness ==
  /\ ServiceWorkerWritten
  /\ MarkupFiles # {}
  /\ Cardinality(Range(required_dependency_paths)) >= 2
  /\ Len(required_polyfill_paths) >= 2

\* The script elements inject_script_tags creates for a markup file, in the
\* order of the required paths.
RECURSIVE ScriptTags(_, _)
ScriptTags(paths, prefix) ==
  IF paths = <<>> THEN <<>>
  ELSE <<Script(Join(prefix, Head(paths)))>> \o ScriptTags(Tail(paths), prefix)

\* What C5 says of the markup file at path p once edit_code has run.
InjectedInOrder(p) ==
  LET before == input_tree[p].doc
      after == fs[p].doc
      tags == ScriptTags(required_script_paths,
                         Join(RootPath(p), config.boilerplate_dir))
  IN  /\ Scripts(after) = tags \o Scripts(before)
      /\ Scripts(before) = <<>> =>
           /\ Len(after.body) >= Len(tags)
           /\ SubSeq(after.body, Len(after.body) - Len(tags) + 1,
                     Len(after.body)) = tags

\* C5: after edit_code every markup file has the injected script elements in
\* the order of the required paths, all before the scripts it had, and in
\* the body when it had none.
C5_InjectedScriptsInRequiredOrder ==
  Taken("edit_code") => \A p \in MarkupFiles : InjectedInOrder(p)

\* The polyfill descriptor a detected API resolves to.
Resolved(api) == IF api \in POLYFILLS THEN registry[api] ELSE default(api)

ExemptApis == {"app.window", "app.runtime"}

\* C6: the status of a run that came to classify it is total exactly when
\* every detected API other than app.window and app.runtime resolves to a
\* descriptor of status total, and partial otherwise.
C6_StatusTotalIffAllTotal ==
  Taken("classify_status") =>
    /\ status \in {"total", "partial"}
    /\ status = "total" <=>
         \A api \in Range(apis) \ ExemptApis : Resolved(api).status = "total"

\* A run that detected app.window and app.runtime only and is total.
C6_Witness ==
  /\ Taken("classify_status")
  /\ Range(apis) = ExemptApis
  /\ status = "total"

\* C7: the polyfillable and the not polyfillable APIs are disjoint, together
\* they are the detected APIs, and polyfillable ones are detected ones.
C7_PartitionOfDetectedApis ==
  Taken("scan_and_resolve") =>
    /\ Range(polyfillable) \cap Range(not_polyfillable) = {}
    /\ Range(polyfillable) \cup Range(not_polyfillable) = Range(apis)
    /\ Range(polyfillable) \subseteq Range(apis)
    /\ Range(polyfillable) \subseteq POLYFILLS
    /\ Range(not_polyfillable) \cap POLYFILLS = {}

\* A scan that found an API with a polyfill and one without.
C7_Witness ==
  /\ Taken("scan_and_resolve")
  /\ polyfillable # <<>>
  /\ not_polyfillable # <<>>

\* C8: a step taken when the output directory exists and force is not set
\* ends the conversion and leaves the input and the output directory as they
\* were; after the conversion has ended this way nothing more is done to
\* them and no stage runs, the process only exits.
C8_ExistingOutputAborts ==
  [][/\ (pc = "setup" /\ output_exists /\ ~force) =>
          /\ pc' = "aborted"
          /\ trace' = <<"setup_output_dir">>
          /\ UNCHANGED <<input_exists, input_tree, output_exists, fs>>
     /\ pc = "aborted" =>
          /\ trace' = Append(trace, "exit")
          /\ UNCHANGED <<pc, input_exists, input_tree, output_exists, fs,
                         sw_js, status, report>>]_vars

\* The conversion has ended at staging because the output directory was
\* there, and the process has exited.
C8_Witness ==
  /\ pc = "aborted"
  /\ ~force
  /\ output_exists
  /\ input_exists
  /\ fs = OldTree
  /\ trace = <<"setup_output_dir", "exit">>

\* The number of elements of s that are in S.
Count(s, S) == Cardinality({i \in DOMAIN s : s[i] \in S})

FailureWarnings ==
  {"Failed to install dependency " \o d.name \o " with " \o d.manager :
     d \in Range(dependencies)}

\* C9: every call of install_dependency whose standard output was empty
\* counts as failed whatever its exit status; when there was such a call,
\* each failed call has its warning, every dependency was attempted, the
\* conversion has not been ended by it, and a run that is done has its
\* caching script and its status.
C9_EmptyOutputIsWarningOnly ==
  (\E i \in DOMAIN installs : installs[i].stdout = "") =>
    /\ \A i \in DOMAIN installs :
         installs[i].failed <=> installs[i].stdout = ""
    /\ Count(captured_warnings, FailureWarnings)
         = Cardinality({i \in DOMAIN installs : installs[i].failed})
    /\ \A i \in DOMAIN log : log[i].levelname # "ERROR"
    /\ Len(installs) = Len(dependencies)
    /\ pc \notin {"aborted", "crashed"}
    /\ pc = "done" =>
         /\ SW_SCRIPT_NAME \in DOMAIN fs
         /\ status \in {"total", "partial"}

\* A finished run whose first installation printed nothing and exited with
\* status 0, and whose later installation was still made.
C9_Witness ==
  /\ pc = "done"
  /\ Len(installs) >= 2
  /\ installs[1].stdout = ""
  /\ installs[1].returncode = 0
  /\ ~installs[2].failed
  /\ SW_SCRIPT_NAME \in DOMAIN fs

\* The conversion ended with one of the fatal errors.
FatalError ==
  \/ pc = "aborted"
  \/ pc = "crashed" /\ FolderLookupRaises(dependencies)

\* C10: a process that has exited after a fatal error has a non-zero exit
\* status and has logged an error message.
C10_FatalErrorExitsNonZero ==
  (FatalError /\ exit_code # -1) =>
    /\ exit_code # 0
    /\ \E i \in DOMAIN log : log[i].levelname = "ERROR" /\ log[i].msg # ""

(***************************************************************************)
(* The annotation pass (specification SpecAnnotate).                       *)
(***************************************************************************)
\* The lines of the file before the first pass, and as they are now.
OriginalLines == input_tree[AnnotatedPath].lines

AnnotatedLines == fs[AnnotatedPath].lines

\* The number of passes run so far.
Passes == Len(trace)

\* C11: a pass over a file that the pass has already annotated leaves the
\* file as it is, so that two passes give what one pass gives.
C11_SecondPassChangesNothing ==
  [][Passes >= 1 => fs' = fs]_vars

\* The line matches the lexical API pattern.
Matches(line) == api_member_used(line) # None

\* The place in the annotated file of line i of the original file: one
\* further down for each matching line up to and including line i.
Place(i) == i + Cardinality({j \in 1..i : Matches(OriginalLines[j])})

\* The end-of-line convention of a line: CRLF, LF, or none for a last line
\* that has no terminator.
Eol(line) ==
  IF EndsWith(line, "\r\n") THEN "\r\n"
  ELSE IF EndsWith(line, "\n") THEN "\n"
  ELSE ""

\* C12: after one pass the file is the original lines, unchanged and in
\* order, with one review comment right before each matching line and no
\* other line added; the comment names the API member and ends with CRLF when
\* the line it precedes ends with CRLF and with LF alone when that line ends
\* with LF alone (and with LF alone before a last line without terminator).
C12_OneCommentBeforeEachMatch ==
  Passes = 1 =>
    /\ Len(AnnotatedLines) =
         Len(OriginalLines)
         + Cardinality({j \in DOMAIN OriginalLines :
                         Matches(OriginalLines[j])})
    /\ \A i \in DOMAIN OriginalLines :
         LET line == OriginalLines[i]
         IN  /\ AnnotatedLines[Place(i)] = line
             /\ Matches(line) =>
                  LET todo == AnnotatedLines[Place(i) - 1]
                  IN  /\ todo = "// TODO(Caterpillar): Check usage of "
                                \o api_member_used(line) \o "."
                                \o Eol(todo)
                      /\ Eol(todo) = IF Eol(line) = "" THEN "\n"
                                     ELSE Eol(line)

\* One pass has run over a file with a matching CRLF line, a matching LF
\* line and a line that does not match.
C12_Witness ==
  /\ pc = "annotate"
  /\ Passes = 1
  /\ \E i, j, k \in DOMAIN OriginalLines :
       /\ Matches(OriginalLines[i]) /\ Eol(OriginalLines[i]) = "\r\n"
       /\ Matches(OriginalLines[j]) /\ Eol(OriginalLines[j]) = "\n"
       /\ ~Matches(OriginalLines[k])
  /\ Len(AnnotatedLines) = Len(OriginalLines) + 2

(***************************************************************************)
(* The passes over the output tree (specification Spec).                   *)
(***************************************************************************)
\* The steps of a sequence that are in S, in order.
RECURSIVE Only(_, _)
Only(steps, S) ==
  IF steps = <<>> THEN <<>>
  ELSE (IF Head(steps) \in S THEN <<Head(steps)>> ELSE <<>>)
       \o Only(Tail(steps), S)

\* s is the first elements of t.
IsPrefix(s, t) == Len(s) <= Len(t) /\ s = SubSeq(t, 1, Len(s))

\* The pass a step belongs to by the work it does: 1 edit code, 2 copy static
\* code (a script of the pipeline copied into the boilerplate directory),
\* 3 install dependencies, 4 synthesize caching script.
PassOf(step) ==
  CASE step = "edit_code" -> 1
    [] step = "copy_static_code" -> 2
    [] step = "copy_script" -> 2
    [] step = "install_dependencies" -> 3
    [] step = "generate_service_worker" -> 4
    [] step = "write_service_worker" -> 4

PassSteps ==
  {"edit_code", "copy_static_code", "copy_script", "install_dependencies",
   "generate_service_worker", "write_service_worker"}

\* C13 as stated: the work of the four passes is done in the order of the
\* passes, and no work of an earlier pass is done once a later pass has
\* begun.
C13_NoEarlierPassWorkAfterLaterPass ==
  LET steps == Only(trace, PassSteps)
  IN  \A i, j \in DOMAIN steps : i < j => PassOf(steps[i]) <= PassOf(steps[j])

\* C13 as amended: the passes run in the order edit code, copy static code,
\* install dependencies, synthesize caching script, each at most once, and
\* the last pass begins by copying register_sw.js and sw_static.js into the
\* boilerplate directory again, which adds no file to the tree and leaves
\* both as copy_static_code wrote them.
C13_PassesInOrderWithRecopy ==
  /\ IsPrefix(Only(trace, PassSteps),
              <<"edit_code", "copy_static_code", "install_dependencies",
                "copy_script", "generate_service_worker",
                "write_service_worker">>)
  /\ (Taken("copy_script") /\ ~Taken("write_service_worker")) =>
       /\ DOMAIN fs = tree_after_install
       /\ \A script \in {REGISTER_SCRIPT_NAME, SW_STATIC_SCRIPT_NAME} :
            fs[Join(config.boilerplate_dir, script)] = StaticSource(script)

\* A conversion that ran all four passes and ended.
C13_Witness ==
  /\ pc = "done"
  /\ Only(trace, PassSteps) =
       <<"edit_code", "copy_static_code", "install_dependencies",
         "copy_script", "generate_service_worker", "write_service_worker">>
  /\ Len(installs) >= 1

(***************************************************************************)
(* The order of the stages (specification Spec).                           *)
(***************************************************************************)
StageSteps ==
  {"setup_output_dir", "scan_and_resolve", "verify_manifest",
   "cleanup_output_dir", "edit_code", "copy_static_code",
   "install_dependencies", "write_web_manifest", "add_app_info",
   "write_service_worker", "classify_status"}

\* C14 as stated: the stages run in the order staging, scan and resolve,
\* verify source manifest, remove source manifest file, edit code, copy
\* static scripts, install dependencies, web manifest and metadata script,
\* caching script, classify status.
C14_StagesInTableOrder ==
  IsPrefix(Only(trace, StageSteps),
           <<"setup_output_dir", "scan_and_resolve", "verify_manifest",
             "cleanup_output_dir", "edit_code", "copy_static_code",
             "install_dependencies", "write_web_manifest", "add_app_info",
             "write_service_worker", "classify_status">>)

\* C14 as amended: the web manifest and the metadata script are written
\* right after the source manifest is verified, before the source manifest
\* file is removed and before the code is edited; the other stages are in
\* the order of the table.  When code editing begins both files are in the
\* tree, and the code-editing pass goes over the metadata script too.
C14_ArtifactsBeforeCodeEditing ==
  /\ IsPrefix(Only(trace, StageSteps),
              <<"setup_output_dir", "scan_and_resolve", "verify_manifest",
                "write_web_manifest", "add_app_info", "cleanup_output_dir",
                "edit_code", "copy_static_code", "install_dependencies",
                "write_service_worker", "classify_status">>)
  /\ pc = "edit_code" =>
       /\ WEB_MANIFEST_FILENAME \in DOMAIN fs
       /\ INFO_SCRIPT_NAME \in DOMAIN fs
       /\ CHROME_APP_MANIFEST_FILENAME \notin DOMAIN fs
       /\ installs = <<>>

\* A conversion that ran every stage, with a dependency to install.
C14_Witness ==
  /\ pc = "done"
  /\ Len(Only(trace, StageSteps)) = Cardinality(StageSteps)
  /\ Len(installs) >= 1
  /\ WEB_MANIFEST_FILENAME \in DOMAIN fs
  /\ INFO_SCRIPT_NAME \in DOMAIN fs

(***************************************************************************)
(* Fatal input errors (specification Spec).                                *)
(***************************************************************************)
ErrorLogged == \E i \in DOMAIN log : log[i].levelname = "ERROR"

\* Some dependency of the list names a manager that is neither bower nor npm.
UnrecognizedManager(deps) ==
  \E i \in DOMAIN deps : deps[i].manager \notin {"bower", "npm"}

\* C15: a conversion with a dependency of an unrecognized manager has, when
\* the process has exited, ended in the aborted state with an error logged,
\* with no warning about that dependency, no caching script and no report.
C15_UnrecognizedManagerAborts ==
  (UnrecognizedManager(dependencies) /\ exit_code # -1) =>
    /\ pc = "aborted"
    /\ ErrorLogged
    /\ installs = <<>>
    /\ SW_SCRIPT_NAME \notin DOMAIN fs
    /\ report = NoReport

\* The source manifest was read and failed verification.
VerificationFailed ==
  /\ Taken("verify_manifest")
  /\ verify_raises(chrome_app_manifest)

\* The steps that follow the verification of the source manifest.
StepsAfterVerification ==
  {"write_web_manifest", "add_app_info", "cleanup_output_dir", "edit_code",
   "copy_static_code", "install_dependencies", "copy_script",
   "generate_service_worker", "write_service_worker", "classify_status",
   "generate_report"}

\* C16: once the source manifest has failed verification the conversion is
\* aborted with an error logged, the output tree is the staged copy of the
\* input tree (the source manifest file still in it, no web manifest,
\* metadata script or caching script, no file edited), and no later stage
\* has run: nothing is installed, no status is set and no report is made.
C16_VerificationFailureAbortsAsStaged ==
  VerificationFailed =>
    /\ pc = "aborted"
    /\ ErrorLogged
    /\ output_exists
    /\ fs = input_tree
    /\ Only(trace, StepsAfterVerification) = <<>>
    /\ installs = <<>>
    /\ sw_js = NoServiceWorker
    /\ status = "unset"
    /\ report = NoReport

\* The process has exited after the manifest failed verification, with the
\* staged tree on disk.
C16_Witness ==
  /\ VerificationFailed
  /\ exit_code # -1
  /\ CHROME_APP_MANIFEST_FILENAME \in DOMAIN fs
  /\ "index.html" \in DOMAIN fs

(***************************************************************************)
(* Terminal states (specification Spec).                                   *)
(***************************************************************************)
\* The number of times a step was taken.
Times(step) == Cardinality({i \in DOMAIN trace : trace[i] = step})

\* C17: a run that has ended is either completed, with status total or
\* partial and the report generated exactly once, after the caching script
\* was written and the status classified, or aborted, with no report
\* generated.
C17_CompletedOrAborted ==
  exit_code # -1 =>
    \/ /\ pc = "done"
       /\ status \in {"total", "partial"}
       /\ Times("generate_report") = 1
       /\ report # NoReport
       /\ report.status = status
       /\ Pos("write_service_worker") # 0
       /\ Pos("write_service_worker") < Pos("classify_status")
       /\ Pos("classify_status") < Pos("generate_report")
    \/ /\ pc = "aborted"
       /\ Times("generate_report") = 0
       /\ report = NoReport

(***************************************************************************)
(* The imports of the caching script (specification Spec).                 *)
(***************************************************************************)
\* The importScripts statements of the caching script in the output tree.
WrittenImports == fs[SW_SCRIPT_NAME].sw.imports

\* The folder the package manager of a dependency installs into.
InstallFolder(dependency) ==
  IF dependency.manager = "bower" THEN "bower_components" ELSE "node_modules"

\* C18: the caching script that was written imports caterpillar.js and
\* sw_static.js of the boilerplate directory, then the script of each
\* dependency in the order of the dependency list, then the polyfill of each
\* polyfillable API in the order of that list, both as paths from the output
\* root through the boilerplate directory, then the background scripts of
\* the source manifest in manifest order, and nothing else.
C18_ImportOrder ==
  ServiceWorkerWritten =>
    LET bp == config.boilerplate_dir
        nd == Len(dependencies)
        np == Len(polyfillable)
        background == chrome_app_manifest.app.background.scripts
    IN  /\ Len(WrittenImports) = 2 + nd + np + Len(background)
        /\ WrittenImports[1] = bp \o "/caterpillar.js"
        /\ WrittenImports[2] = bp \o "/sw_static.js"
        /\ \A i \in 1..nd :
             WrittenImports[2 + i] =
               bp \o "/../" \o InstallFolder(dependencies[i]) \o "/"
               \o dependencies[i].name \o "/" \o dependencies[i].path
        /\ \A i \in 1..np :
             WrittenImports[2 + nd + i] =
               bp \o "/polyfills/" \o polyfillable[i] \o ".polyfill.js"
        /\ \A i \in DOMAIN background :
             WrittenImports[2 + nd + np + i] = background[i]

\* A caching script was written for an app with two dependencies of
\* different managers, two polyfills and two background scripts.
C18_Witness ==
  /\ ServiceWorkerWritten
  /\ Len(dependencies) = 2
  /\ dependencies[1].manager # dependencies[2].manager
  /\ Len(polyfillable) = 2
  /\ Len(chrome_app_manifest.app.background.scripts) = 2
  /\ Len(WrittenImports) = 8

(***************************************************************************)
(* The dependency list (specification Spec).                               *)
(***************************************************************************)
\* No element is at two places of the sequence.
NoDuplicates(s) == \A i, j \in DOMAIN s : i # j => s[i] # s[j]

\* The names of the dependencies install_dependency was called for.
InstalledNames == [i \in DOMAIN installs |-> installs[i].name]

\* C19: the dependency list holds exactly the dependencies of the manifests
\* of the polyfillable APIs, each of them once, so that each gets one
\* required script path and one installation.
C19_DependenciesAreUnion ==
  Taken("scan_and_resolve") =>
    /\ Range(dependencies) =
         UNION {Range(registry[api].dependencies) :
                api \in Range(polyfillable)}
    /\ NoDuplicates(dependencies)
    /\ NoDuplicates(required_dependency_paths)
    /\ NoDuplicates(InstalledNames)

(***************************************************************************)
(* inject_misc_tags (specification SpecMisc).                              *)
(***************************************************************************)
\* The document before the call, and as it is now.
OriginalDoc == input_tree[MarkupPath].doc

EditedDoc == fs[MarkupPath].doc

\* The document has a meta tag with the given name, anywhere in it.
MetaNamed(doc, field) ==
  \E e \in Range(Elements(doc)) :
    e.tag = "meta" /\ "name" \in DOMAIN e /\ e.name = field

\* The document has a meta tag with a charset attribute.
MetaCharset(doc) ==
  \E e \in Range(Elements(doc)) : e.tag = "meta" /\ "charset" \in DOMAIN e

\* The meta tag added for a descriptive field, if one is added: the field is
\* in the manifest and the document had no meta tag of that name.
MetaAdded(field) ==
  IF field \in DOMAIN chrome_app_manifest /\ ~MetaNamed(OriginalDoc, field)
  THEN <<[tag |-> "meta", content |-> chrome_app_manifest[field],
          name |-> field]>>
  ELSE <<>>

\* C20: after inject_misc_tags the document has a head; the head is what it
\* was (empty if there was none) with the manifest link appended, then a
\* meta tag for each of description, author and name that is in the manifest
\* and had no meta tag in the document, and with a utf-8 charset meta tag put
\* first exactly when the document had no charset meta tag; nothing else
\* of the document is changed.
C20_MiscTagsInjected ==
  Taken("inject_misc_tags") =>
    /\ EditedDoc.hasHead
    /\ EditedDoc.head =
         (IF MetaCharset(OriginalDoc) THEN <<>>
          ELSE <<[tag |-> "meta", charset |-> "utf-8"]>>)
         \o OriginalDoc.head
         \o <<[tag |-> "link", rel |-> "manifest",
               href |-> "./" \o WEB_MANIFEST_FILENAME]>>
         \o MetaAdded("description") \o MetaAdded("author")
         \o MetaAdded("name")
    /\ EditedDoc.body = OriginalDoc.body
    /\ EditedDoc.rest = OriginalDoc.rest
    /\ EditedDoc.hasHtml = OriginalDoc.hasHtml
    /\ EditedDoc.hasBody = OriginalDoc.hasBody

\* The function has run on a document without a head and without a charset
\* meta tag, whose body has an author meta tag, with a manifest that has an
\* author and a description: the description tag is added, the author tag
\* is not.
C20_Witness ==
  /\ pc = "inject"
  /\ Taken("inject_misc_tags")
  /\ ~OriginalDoc.hasHead
  /\ MetaNamed(OriginalDoc, "author")
  /\ {"author", "description"} \subseteq DOMAIN chrome_app_manifest
  /\ Len(EditedDoc.head) = 3
  /\ EditedDoc.head[1] = [tag |-> "meta", charset |-> "utf-8"]

(***************************************************************************)
(* generate_web_manifest (specification SpecWebManifest).                  *)
(***************************************************************************)
\* The web manifest that was generated.
WebManifest == fs[WEB_MANIFEST_FILENAME].data

\* C21: the web manifest has the name of the source manifest, its
\* short_name or else its name, its default_locale or else en as lang, the
\* start URL that was supplied, one icon entry with src and sizes for each
\* entry of the source icon map and none when there is no map, the fixed
\* values in all its other fields, and no further field; the source
\* manifest is as it was.
C21_WebManifestFields ==
  Taken("generate_web_manifest") =>
    LET source == chrome_app_manifest
        size_to_path == IF "icons" \in DOMAIN source THEN source.icons
                        ELSE <<>>
    IN  /\ DOMAIN WebManifest =
             {"name", "short_name", "lang", "splash_screens", "display",
              "orientation", "start_url", "theme_color", "background_color",
              "related_applications", "prefer_related_applications",
              "icons"}
        /\ WebManifest.name = source.name
        /\ WebManifest.short_name =
             IF "short_name" \in DOMAIN source THEN source.short_name
             ELSE source.name
        /\ WebManifest.lang =
             IF "default_locale" \in DOMAIN source
             THEN source.default_locale ELSE "en"
        /\ WebManifest.start_url = config_start_url
        /\ Cardinality(WebManifest.icons) = Cardinality(DOMAIN size_to_path)
        /\ \A size \in DOMAIN size_to_path :
             [src |-> size_to_path[size], sizes |-> size \o "x" \o size]
               \in WebManifest.icons
        /\ WebManifest.splash_screens = <<>>
        /\ WebManifest.display = "minimal-ui"
        /\ WebManifest.orientation = "any"
        /\ WebManifest.theme_color = "white"
        /\ WebManifest.background_color = "white"
        /\ WebManifest.related_applications = <<>>
        /\ WebManifest.prefer_related_applications = FALSE
        /\ source = input_tree[CHROME_APP_MANIFEST_FILENAME].data

\* A web manifest was generated from a source manifest with a default
\* locale, two icons and a description, and without a short name.
C21_Witness ==
  /\ pc = "generate"
  /\ Taken("generate_web_manifest")
  /\ "default_locale" \in DOMAIN chrome_app_manifest
  /\ "short_name" \notin DOMAIN chrome_app_manifest
  /\ "description" \in DOMAIN chrome_app_manifest
  /\ "icons" \in DOMAIN chrome_app_manifest
  /\ Cardinality(DOMAIN chrome_app_manifest.icons) = 2
  /\ Cardinality(WebManifest.icons) = 2
  /\ config_start_url = "main.html"

RECURSIVE WarningMessages(_)
WarningMessages(records) ==
  IF records = <<>> THEN <<>>
  ELSE (IF Head(records).levelname = "WARNING" THEN <<Head(records).msg>>
        ELSE <<>>)
       \o WarningMessages(Tail(records))

\* The calls of install_dependency that failed.
FailedInstalls == {i \in DOMAIN installs : installs[i].failed}

AddedByPipeline(path) ==
  \/ StartsWith(path, config.boilerplate_dir \o "/")
  \/ StartsWith(path, "bower_components/")
  \/ StartsWith(path, "node_modules/")

\* A line is a comment of the annotation pass.
IsTodo(line) == StartsWith(line, "// TODO(Caterpillar): ")

\* The steps that add such files.
AddingSteps == {"copy_static_code", "install_dependencies", "copy_script"}

\* C24: the code-editing walk runs at most once and has ended before any
\* step copies a static or polyfill script or installs a dependency, and no
\* such file in the output tree has a comment of the annotation pass, though
\* each of them has a line the pass would annotate.
C24_AddedFilesAreNeverEdited ==
  /\ Times("edit_code") <= 1
  /\ \A step \in AddingSteps :
       Taken(step) => Pos("edit_code") # 0 /\ Pos("edit_code") < Pos(step)
  /\ \A path \in DOMAIN fs :
       AddedByPipeline(path) =>
         /\ fs[path].kind = "js"
         /\ \A i \in DOMAIN fs[path].lines : ~IsTodo(fs[path].lines[i])
         /\ \E i \in DOMAIN fs[path].lines : Matches(fs[path].lines[i])

\* A completed run whose tree holds a static script, a polyfill and an
\* installed dependency, after a code-editing walk that annotated a script of
\* the app.
C24_Witness ==
  /\ pc = "done"
  /\ Join(config.boilerplate_dir, "caterpillar.js") \in DOMAIN fs
  /\ \E path \in DOMAIN fs :
       StartsWith(path, Join(config.boilerplate_dir, "polyfills/"))
  /\ \E path \in DOMAIN fs : StartsWith(path, "bower_components/")
  /\ \E i \in DOMAIN fs["x.js"].lines : IsTodo(fs["x.js"].lines[i])

(***************************************************************************)
(* sw_static.js and manifest.json in the caching script (specification     *)
(* Spec).                                                                  *)
(***************************************************************************)
\* The path of sw_static.js in the output tree.
SwStaticPath == Join(config.boilerplate_dir, SW_STATIC_SCRIPT_NAME)

\* The markup file at path loads sw_static.js with a script tag.
LoadsSwStatic(path) ==
  \E script \in Range(Scripts(fs[path].doc)) :
    EndsWith(script.src, "/" \o SW_STATIC_SCRIPT_NAME)

\* C25: no markup file of the output tree has a script tag for
\* sw_static.js; when the caching script is generated the file was in the
\* boilerplate directory already when the dependencies had been installed,
\* and it is in the cached file list; a completed run has written that list.
C25_SwStaticCachedNotInjected ==
  /\ \A path \in MarkupFiles : ~LoadsSwStatic(path)
  /\ Taken("generate_service_worker") =>
       /\ SwStaticPath \in tree_after_install
       /\ SwStaticPath \in Range(sw_js.cached_files)
  /\ pc = "done" =>
       /\ Taken("generate_service_worker")
       /\ SwStaticPath \in Range(fs[SW_SCRIPT_NAME].sw.cached_files)

\* A completed run: the markup files load caterpillar.js with an injected
\* script tag, and sw_static.js is cached.
C25_Witness ==
  /\ pc = "done"
  /\ \A path \in MarkupFiles :
       \E script \in Range(Scripts(fs[path].doc)) :
         EndsWith(script.src, "/caterpillar.js")
  /\ MarkupFiles # {}
  /\ SwStaticPath \in Range(fs[SW_SCRIPT_NAME].sw.cached_files)

\* C26: when the file list of the caching script is taken the source
\* manifest file has been removed from the output tree, and the list of the
\* caching script that a completed run has written does not hold its path.
C26_SourceManifestNotCached ==
  /\ Taken("generate_service_worker") =>
       /\ Pos("cleanup_output_dir") # 0
       /\ Pos("cleanup_output_dir") < Pos("generate_service_worker")
       /\ CHROME_APP_MANIFEST_FILENAME \notin DOMAIN fs
       /\ CHROME_APP_MANIFEST_FILENAME \notin Range(sw_js.cached_files)
  /\ pc = "done" =>
       /\ Taken("generate_service_worker")
       /\ CHROME_APP_MANIFEST_FILENAME
            \notin Range(fs[SW_SCRIPT_NAME].sw.cached_files)

\* A completed run on an input tree with a source manifest file: the web
\* manifest is cached, the source manifest is not there any more.
C26_Witness ==
  /\ pc = "done"
  /\ CHROME_APP_MANIFEST_FILENAME \in DOMAIN input_tree
  /\ WEB_MANIFEST_FILENAME \in Range(fs[SW_SCRIPT_NAME].sw.cached_files)
  /\ CHROME_APP_MANIFEST_FILENAME \notin DOMAIN fs

(***************************************************************************)
(* Conversions into an output directory that is there already              *)
(* (specification SpecExistingOutput).                                     *)
(***************************************************************************)
\* C27: with force set and an output directory there, setup_output_dir
\* leaves nothing of the previous output directory, whether or not the copy
\* of the input tree succeeds; when the input directory is missing the
\* conversion ends at staging with the output directory gone, and nothing
\* brings it back afterwards.
C27_ForcedStagingAbortLosesOutput ==
  [][/\ (pc = "setup" /\ force /\ output_exists) =>
          /\ trace' = <<"setup_output_dir">>
          /\ \A path \in DOMAIN OldTree : path \notin DOMAIN fs'
          /\ IF input_exists
             THEN output_exists' /\ fs' = input_tree /\ pc' # "aborted"
             ELSE ~output_exists' /\ fs' = NoTree /\ pc' = "aborted"
     /\ pc = "aborted" =>
          /\ trace' = Append(trace, "exit")
          /\ UNCHANGED <<pc, output_exists, fs>>]_vars

\* The conversion has ended at staging because the input directory is
\* missing, force was set, and the output directory that was there is gone.
C27_Witness ==
  /\ pc = "aborted"
  /\ force
  /\ ~input_exists
  /\ ~output_exists
  /\ fs = NoTree
  /\ ErrorLogged
  /\ trace = <<"setup_output_dir", "exit">>

====
